---- MODULE Spec2Model ----
(***************************************************************************)
(* Model of the exam-gen generation pipeline:                              *)
(*   - calculate_batches   (api/app/services/ai_engine.py)                 *)
(*   - normalize_topic     (api/app/services/ai_engine.py)                 *)
(*   - agent_architect     (api/app/services/ai_engine.py)                 *)
(*   - reindex_exam_items  (api/server/main.py)                            *)
(* Texts that the code inspects character by character (question texts,   *)
(* the avoid-topics text) are sequences of one-character strings; texts    *)
(* the code only carries around (titles, options, ...) are plain strings.  *)
(***************************************************************************)
EXTENDS Integers, Sequences, FiniteSets, TLC

(***************************************************************************)
(* Bounds of the model and program constants.                              *)
(***************************************************************************)
\* largest total_count handed to calculate_batches when it is called alone
MaxTotal == 50
\* largest max_batch handed to calculate_batches when it is called alone
MaxBatchArg == 12
\* the arguments of calculate_batches range down to -MaxNeg
MaxNeg == 2
\* longest item list a collaborator of mode "any" answers with (runs of up to
\* two batches)
MaxItems == 3
\* longest item list a collaborator of mode "long" answers with (runs of up to
\* three batches)
MaxItemsLong == 1
\* agent_architect: calculate_batches(question_count, max_batch=10)
MAX_BATCH == 10

None == "None"

Min(a, b) == IF a <= b THEN a ELSE b

(***************************************************************************)
(* Characters and str methods used by normalize_topic and ", ".join(sorted)*)
(***************************************************************************)
UpperChars == <<"A", "B", "C", "D", "E", "F", "G", "H", "I", "J", "K", "L", "M",
                "N", "O", "P", "Q", "R", "S", "T", "U", "V", "W", "X", "Y", "Z">>
LowerChars == <<"a", "b", "c", "d", "e", "f", "g", "h", "i", "j", "k", "l", "m",
                "n", "o", "p", "q", "r", "s", "t", "u", "v", "w", "x", "y", "z">>
DigitChars == <<"0", "1", "2", "3", "4", "5", "6", "7", "8", "9">>
\* the characters of the model in code-point order (str comparison order)
CodeOrder == <<"\t", "\n", " ", ",">> \o DigitChars \o UpperChars \o LowerChars

Whitespace == {" ", "\t", "\n"}

Ord(c) == CHOOSE i \in 1..Len(CodeOrder) : CodeOrder[i] = c

\* str.lower(), one character
LowerChar(c) ==
    IF \E i \in 1..Len(UpperChars) : UpperChars[i] = c
    THEN LowerChars[CHOOSE i \in 1..Len(UpperChars) : UpperChars[i] = c]
    ELSE c

\* str.lower()
StrLower(s) == [i \in 1..Len(s) |-> LowerChar(s[i])]

\* str.strip(): drop leading and trailing whitespace
StrStrip(s) ==
    LET keep == {i \in 1..Len(s) : s[i] \notin Whitespace}
    IN  IF keep = {} THEN <<>>
        ELSE LET lo == CHOOSE i \in keep : \A j \in keep : i <= j
                 hi == CHOOSE i \in keep : \A j \in keep : i >= j
             IN  SubSeq(s, lo, hi)

\* str.split() without argument: the maximal runs of non-whitespace, in order
RECURSIVE SplitFrom(_, _, _, _)
SplitFrom(s, i, word, words) ==
    IF i > Len(s)
    THEN IF word = <<>> THEN words ELSE Append(words, word)
    ELSE IF s[i] \in Whitespace
         THEN SplitFrom(s, i + 1, <<>>,
                        IF word = <<>> THEN words ELSE Append(words, word))
         ELSE SplitFrom(s, i + 1, Append(word, s[i]), words)

StrSplit(s) == SplitFrom(s, 1, <<>>, <<>>)

\* sep.join(parts)
RECURSIVE StrJoin(_, _)
StrJoin(sep, parts) ==
    IF parts = <<>> THEN <<>>
    ELSE IF Len(parts) = 1 THEN parts[1]
    ELSE parts[1] \o sep \o StrJoin(sep, Tail(parts))

NormalizeNoFold(text) == StrLower(StrStrip(text))
\* normalize_topic: " ".join(text.strip().lower().split()); as in Python,
\* each stage is a value before the next one is applied to it
NormalizeTopic(text) ==
    CHOOSE key \in {StrJoin(<<" ">>, words) :
                       words \in {StrSplit(lowered) :
                                    lowered \in {StrLower(stripped) :
                                                  stripped \in {StrStrip(text)}}}} : TRUE

\* str < str: lexicographic by code point, a proper prefix is smaller
StrLess(a, b) ==
    \E k \in 1..(Min(Len(a), Len(b)) + 1) :
        /\ \A i \in 1..(k - 1) : a[i] = b[i]
        /\ \/ k = Len(a) + 1 /\ k <= Len(b)
           \/ k <= Len(a) /\ k <= Len(b) /\ Ord(a[k]) < Ord(b[k])

\* sorted(set of str): position i holds the element with i - 1 smaller ones
Sorted(S) ==
    [i \in 1..Cardinality(S) |->
        CHOOSE x \in S : Cardinality({y \in S : StrLess(y, x)}) = i - 1]

(***************************************************************************)
(* calculate_batches                                                       *)
(***************************************************************************)
BatchSizeNoMin(max_batch, remaining) == max_batch
\* an even split: as many batches, of sizes as equal as possible
BatchSizeEven(max_batch, remaining) ==
    LET parts == (remaining + max_batch - 1) \div max_batch
    IN  (remaining + parts - 1) \div parts
\* batch_size = min(max_batch, remaining)
BatchSize(max_batch, remaining) == Min(max_batch, remaining)

ArgumentErrorStrict(total_count, max_batch) ==
    IF total_count < 0 THEN "ValueError: total_count must be positive"
    ELSE IF max_batch < 0 THEN "ValueError: max_batch must be positive"
    ELSE None
\* the two guards of calculate_batches: the error raised, or None
ArgumentError(total_count, max_batch) ==
    IF total_count <= 0 THEN "ValueError: total_count must be positive"
    ELSE IF max_batch <= 0 THEN "ValueError: max_batch must be positive"
    ELSE None

\* the while loop of calculate_batches
RECURSIVE BatchLoop(_, _, _)
BatchLoop(batches, remaining, max_batch) ==
    IF remaining > 0
    THEN LET batch_size == BatchSize(max_batch, remaining)
         IN  BatchLoop(Append(batches, batch_size), remaining - batch_size, max_batch)
    ELSE batches

\* calculate_batches(total_count, max_batch): the error raised or the list returned
CalculateBatches(total_count, max_batch) ==
    LET err == ArgumentError(total_count, max_batch)
    IN  IF err # None
        THEN [error |-> err, value |-> <<>>]
        ELSE [error |-> None, value |-> BatchLoop(<<>>, total_count, max_batch)]

(***************************************************************************)
(* reindex_exam_items                                                      *)
(***************************************************************************)
ReindexKeepIds(worksheet) == worksheet

ReindexShift(worksheet) ==
    [worksheet EXCEPT !.items =
        [i \in 1..Len(worksheet.items) |->
            [worksheet.items[i] EXCEPT !.id = worksheet.items[i].id + 1]]]
\* reindex_exam_items: a copy of the worksheet whose i-th item has id i
ReindexExamItems(worksheet) ==
    [worksheet EXCEPT !.items =
        [i \in 1..Len(worksheet.items) |-> [worksheet.items[i] EXCEPT !.id = i]]]

(***************************************************************************)
(* Worksheets, items and the collaborator's answers                        *)
(***************************************************************************)
Opt(label, text) == [label |-> label, text |-> text]

\* Optional[...] values: None, or a value
Absent(default) == [some |-> FALSE, v |-> default]
Some(v) == [some |-> TRUE, v |-> v]

NoOptions == Absent(<<>>)
FourOptions == Some(<<Opt("a", "A"), Opt("b", "B"), Opt("c", "C"), Opt("d", "D")>>)
TrueFalseOptions == Some(<<Opt("true", "True"), Opt("false", "False")>>)

\* schemas.ExamItem
ExamItem(id, question, type, options, correct_answer) ==
    [id |-> id, question |-> question, type |-> type, options |-> options,
     correct_answer |-> correct_answer, explanation |-> None, image_prompt |-> None]

\* schemas.Worksheet
Worksheet(title, subject, target_level, items) ==
    [title |-> title, subject |-> subject, target_level |-> target_level,
     items |-> items]

\* the items an unconstrained collaborator picks from: the first two have the
\* same normalized question, ids repeat, are unordered and non-positive; the
\* schema takes any text as correct_answer, and the first item's is not the
\* label of one of its options
ItemPool ==
    { ExamItem(1, <<" ", "F", "o", "o", " ", "\t", "B", "A", "R", " ">>,
               "multiple_choice", FourOptions, "e"),
      ExamItem(1, <<"f", "o", "o", " ", "b", "a", "r">>,
               "true_false", TrueFalseOptions, "true"),
      ExamItem(0 - 3, <<"B", "a", "z">>, "subjective", NoOptions, "free text") }

\* the item lists of at most n items
ItemLists(n) == UNION {[1..k -> ItemPool] : k \in 0..n}

\* (title, subject, target_level) of a collaborator answer
Metas == { <<"Title A", "Subject A", "Level A">>,
           <<"Title B", "Subject B", "Level B">> }

\* the metadata a collaborator with fixed answers gives on the call of a batch
StubMeta(index) ==
    IF index = 1 THEN <<"Title A", "Subject A", "Level A">>
    ELSE <<"Title B", "Subject B", "Level B">>

\* the question of the g-th distinct item of a stub collaborator
StubQuestion(g) == <<"Q", " ", DigitChars[(g \div 10) + 1], DigitChars[(g % 10) + 1]>>
\* the same question up to case and whitespace
StubQuestionVariant(g) ==
    <<" ", "q", " ", "\t", DigitChars[(g \div 10) + 1], DigitChars[(g % 10) + 1], "\n">>

StubItems(first, n) ==
    [i \in 1..n |-> ExamItem(i, StubQuestion(first + i - 1), "subjective", NoOptions, "text")]


\* Optional[Worksheet]: None
NoWorksheet == Absent(Worksheet("", "", "", <<>>))

\* a response whose .parsed is a Worksheet
Parsed(meta, items) ==
    [kind |-> "parsed", parsed |-> Some(Worksheet(meta[1], meta[2], meta[3], items))]

\* an unconstrained collaborator: it raises, answers without a parsed payload,
\* or answers a worksheet with metadata of `metas` and any list of at most n items
AnyOutcomes(metas, n) ==
    {[kind |-> "raise", parsed |-> NoWorksheet],
     [kind |-> "none", parsed |-> NoWorksheet]}
    \cup {Parsed(meta, items) : meta \in metas, items \in ItemLists(n)}

Modes == {"any", "long", "unique10", "exact", "dup5", "surplus"}

\* What client.models.generate_content may do on the call of batch `index`:
\*   any       any outcome, lists of at most MaxItems items, the metadata of
\*             the first answer differing from that of the later ones
\*   long      any outcome, lists of at most MaxItemsLong items, any metadata
\*   unique10  answer 10 items never returned before, whatever the batch size
\*   exact     answer batch_size items never returned before
\*   dup5      as unique10, but batch 2 repeats 5 questions of batch 1 (up to
\*             case and whitespace) and adds 5 new ones
\*   surplus   answer batch_size + 1 items never returned before
Outcomes(m, index, batch_size) ==
    CASE m = "any" -> AnyOutcomes({StubMeta(index)}, MaxItems)
      [] m = "long" -> AnyOutcomes(Metas, MaxItemsLong)
      [] m = "unique10" ->
            {Parsed(StubMeta(index), StubItems(10 * (index - 1) + 1, 10))}
      [] m = "exact" ->
            {Parsed(StubMeta(index), StubItems(10 * (index - 1) + 1, batch_size))}
      [] m = "dup5" ->
            IF index = 2
            THEN {Parsed(StubMeta(index),
                         [i \in 1..5 |-> ExamItem(i, StubQuestionVariant(2 * i),
                                                  "subjective", NoOptions, "text")]
                         \o StubItems(11, 5))}
            ELSE {Parsed(StubMeta(index), StubItems(10 * (index - 1) + 1, 10))}
      [] m = "surplus" ->
            {Parsed(StubMeta(index), StubItems(11 * (index - 1) + 1, batch_size + 1))}

\* question_count handed to agent_architect: none, one, two or three batches
QuestionCounts(m) ==
    CASE m = "any" -> {0, 7, 20}
      [] m = "long" -> {20, 25}
      [] m = "surplus" -> {20}
      [] OTHER -> {20, 25}

(***************************************************************************)
(* State                                                                   *)
(***************************************************************************)
VARIABLES
    \* a call of calculate_batches on its own
    p_pc,             \* "idle", "entry", "loop", "returned", "raised"
    p_total,          \* total_count
    p_max,            \* max_batch
    p_remaining,      \* remaining
    p_batches,        \* batches
    p_error,          \* the exception raised, or None
    \* a run of agent_architect followed by the caller's reindex_exam_items
    pc,               \* "idle", "start", "call", "wait", "items", "returned", "raised",
                      \* "reindexed", "counted", "rendered", "responded",
                      \* "failed" (generate_docx raised)
    mode,             \* how the collaborator behaves in this run
    question_count,
    batch_sizes,
    index,            \* index of the for loop over batch_sizes, from 1
    aggregated_items,
    existing_topics,
    worksheet_meta,   \* Optional[Worksheet]
    parsed,           \* response.parsed of the current batch
    pos,              \* position of `for item in parsed.items`, from 1
    calls,            \* the prompts handed to generate_content, in order
    in_flight,        \* calls of generate_content that have not come back yet
    error,            \* the exception the run ended with, or None
    result,           \* the Worksheet agent_architect returned, if it did
    worksheet,        \* the caller's worksheet after reindex_exam_items
    \* history: aggregated_items and existing_topics when the current batch's
    \* item loop was entered
    start_items,
    start_topics,
    \* history: for each element of aggregated_items, the batch index and the
    \* position in that batch's answer it was accepted from
    origin,
    \* history: the normalized questions of all items the answers held so far
    returned_keys,
    \* generate_exam after reindex_exam_items
    total_generated,
    warning,          \* the warning text of the response, or None
    reply,            \* the body of the success response, if one was sent
    \* a call of reindex_exam_items on its own, made by render_docx
    r_pc,             \* "idle", "entry", "loop", "returned", "rendered", "again"
    r_worksheet,      \* the argument object, as it is now
    r_given,          \* history: the argument as it was at the call
    r_reindexed_items,
    r_index,          \* index of enumerate(worksheet.items, start=1)
    r_result,         \* the worksheet reindex_exam_items returned, if it did
    r_twice,          \* reindex_exam_items applied to its own result
    \* the worksheet generate_docx was handed, by either endpoint
    docx,
    \* a call of normalize_topic on a text and on a variant of it
    n_pc,             \* "idle", "entry", "returned"
    n_text,
    n_other,          \* a text made from n_text by edits of case and whitespace
    n_key,            \* normalize_topic(n_text)
    n_other_key,      \* normalize_topic(n_other)
    \* one request to /generate-exam, /api/analyze or /api/generate-batch
    h_pc,             \* the handler's next step, "idle" when there is no request
    h_endpoint,
    h_request,        \* the form fields the handler looks at
    h_file_path,      \* whether the local file_path is bound
    h_temp,           \* whether the temporary PDF exists on disk
    h_ai_calls,       \* the AI steps entered so far, in order
    h_exception,      \* the exception raised inside the try block, if any
    h_leaving,        \* the exception that leaves the handler, if any
    h_http,           \* what the client receives, once the handler has ended
    \* the caller of a run goes away
    abandoned,
    started_at_abandon,  \* history: the batches started when the caller went away
    \* two requests served at the same time: for each, the locals of its own
    \* call of agent_architect
    runs

planVars == <<p_pc, p_total, p_max, p_remaining, p_batches, p_error>>
runVars == <<pc, mode, question_count, batch_sizes, index, aggregated_items,
             existing_topics, worksheet_meta, parsed, pos, calls, error, result,
             worksheet, start_items, start_topics, origin, in_flight,
             returned_keys>>
\* what agent_architect never touches
tailVars == <<total_generated, warning, reply>>
renderVars == <<r_pc, r_worksheet, r_given, r_reindexed_items, r_index, r_result,
                r_twice>>
normVars == <<n_pc, n_text, n_other, n_key, n_other_key>>
handlerVars == <<h_pc, h_endpoint, h_request, h_file_path, h_temp, h_ai_calls,
                 h_exception, h_leaving, h_http>>
abandonVars == <<abandoned, started_at_abandon>>
\* the state of the other entry points
twoVars == <<runs>>
sideVars == <<normVars, handlerVars, abandonVars, twoVars>>
restVars == <<planVars, tailVars, renderVars, docx, sideVars>>
vars == <<planVars, runVars, tailVars, renderVars, docx, sideVars>>

PlanIdle ==
    /\ p_pc = "idle" /\ p_total = 0 /\ p_max = 0 /\ p_remaining = 0
    /\ p_batches = <<>> /\ p_error = None

RunBlank ==
    /\ batch_sizes = <<>> /\ index = 0 /\ aggregated_items = <<>>
    /\ existing_topics = {} /\ worksheet_meta = NoWorksheet /\ parsed = NoWorksheet
    /\ pos = 0 /\ calls = <<>> /\ error = None /\ result = NoWorksheet
    /\ worksheet = NoWorksheet /\ start_items = <<>> /\ start_topics = {}
    /\ origin = <<>> /\ in_flight = 0 /\ returned_keys = {}

\* no response body yet
NoReply ==
    Absent([status |-> "", requested_count |-> 0, total_generated |-> 0,
            batches_planned |-> 0, warning |-> None])

TailBlank == total_generated = 0 /\ warning = None /\ reply = NoReply

RunIdle == pc = "idle" /\ mode = "any" /\ question_count = 0 /\ RunBlank /\ TailBlank

NormIdle ==
    /\ n_pc = "idle" /\ n_text = <<>> /\ n_other = <<>>
    /\ n_key = <<>> /\ n_other_key = <<>>

\* an exception: its class, the status it carries (HTTPException) and its
\* text, in parts
Exc(class, status, detail) == [class |-> class, status |-> status, detail |-> detail]

NoException == Exc(None, 0, <<>>)

\* an HTTP response: the status and, for an error, the detail
Http(status, detail) == [status |-> status, detail |-> detail]

NoRequest ==
    [source |-> None, question_count |-> 0, language |-> "", exam_type |-> ""]

HandlerIdle ==
    /\ h_pc = "idle" /\ h_endpoint = None /\ h_request = NoRequest
    /\ h_file_path = FALSE /\ h_temp = FALSE /\ h_ai_calls = <<>>
    /\ h_exception = NoException /\ h_leaving = NoException
    /\ h_http = Absent(Http(0, <<>>))

AbandonIdle == abandoned = FALSE /\ started_at_abandon = 0

TwoIdle == runs = <<>>

SideIdle == NormIdle /\ HandlerIdle /\ AbandonIdle /\ TwoIdle

RenderIdle ==
    /\ r_pc = "idle" /\ r_worksheet = NoWorksheet /\ r_given = NoWorksheet
    /\ r_reindexed_items = <<>> /\ r_index = 0 /\ r_result = NoWorksheet
    /\ r_twice = NoWorksheet /\ docx = NoWorksheet

(***************************************************************************)
(* calculate_batches, statement by statement                               *)
(***************************************************************************)
\* if total_count <= 0: raise ...; if max_batch <= 0: raise ...
PlanRaise ==
    /\ p_pc = "entry"
    /\ ArgumentError(p_total, p_max) # None
    /\ p_error' = ArgumentError(p_total, p_max)
    /\ p_pc' = "raised"
    /\ UNCHANGED <<p_total, p_max, p_remaining, p_batches, runVars, tailVars, renderVars, docx, sideVars>>

\* batches = []; remaining = total_count
PlanEnter ==
    /\ p_pc = "entry"
    /\ ArgumentError(p_total, p_max) = None
    /\ p_batches' = <<>>
    /\ p_remaining' = p_total
    /\ p_pc' = "loop"
    /\ UNCHANGED <<p_total, p_max, p_error, runVars, tailVars, renderVars, docx, sideVars>>

\* one iteration of while remaining > 0
PlanStep ==
    /\ p_pc = "loop"
    /\ p_remaining > 0
    /\ LET batch_size == BatchSize(p_max, p_remaining)
       IN  /\ p_batches' = Append(p_batches, batch_size)
           /\ p_remaining' = p_remaining - batch_size
    /\ UNCHANGED <<p_pc, p_total, p_max, p_error, runVars, tailVars, renderVars, docx, sideVars>>

\* the loop ends; return batches
PlanReturn ==
    /\ p_pc = "loop"
    /\ ~(p_remaining > 0)
    /\ p_pc' = "returned"
    /\ UNCHANGED <<p_total, p_max, p_remaining, p_batches, p_error, runVars, tailVars, renderVars, docx, sideVars>>

PlanInit ==
    /\ p_pc = "entry"
    /\ p_total \in (0 - MaxNeg)..MaxTotal
    /\ p_max \in (0 - MaxNeg)..MaxBatchArg
    /\ p_remaining = 0 /\ p_batches = <<>> /\ p_error = None
    /\ RunIdle /\ RenderIdle /\ SideIdle

PlanNext == PlanRaise \/ PlanEnter \/ PlanStep \/ PlanReturn

SpecPlan == PlanInit /\ [][PlanNext]_vars

(***************************************************************************)
(* agent_architect, statement by statement, and the caller's reindex       *)
(***************************************************************************)
\* the text sent when there is nothing to avoid: the five code points of the
\* Thai word for "none", each written by its number
NO_TOPICS == <<"U+0E44", "U+0E21", "U+0E48", "U+0E21", "U+0E35">>

Reversed(q) == [i \in 1..Len(q) |-> q[Len(q) + 1 - i]]

AvoidTopicsReversed(topics) ==
    IF topics # {} THEN StrJoin(<<",", " ">>, Reversed(Sorted(topics))) ELSE NO_TOPICS
\* avoid_topics = ", ".join(sorted(existing_topics)) if existing_topics else NO_TOPICS
AvoidTopics(topics) ==
    IF topics # {}
    THEN CHOOSE joined \in {StrJoin(<<",", " ">>, ordered) :
                              ordered \in {Sorted(topics)}} : TRUE
    ELSE NO_TOPICS

\* the arguments of get_prompt("architect", ...) that vary from batch to batch
Prompt(i, total_batches, batch_size, topics) ==
    [batch_info |-> <<i, total_batches, batch_size>>,
     question_count |-> batch_size,
     avoid_topics |-> AvoidTopics(topics)]

\* (title, subject, target_level) of a worksheet
MetaOf(w) == <<w.title, w.subject, w.target_level>>

\* an entry of the call log: the prompt sent, how the call ended ("raise",
\* "none", "parsed") and the metadata of the parsed answer
Call(prompt, kind, answer) ==
    [prompt |-> prompt, outcome |-> kind, meta |-> MetaOf(answer.v)]

EMPTY_RESPONSE == "ValueError: [Agent 2] Empty response from Gemini"
NO_BATCHES == "ValueError: [Agent 2] Failed to generate any batches"
UPSTREAM_ERROR == "Exception: generate_content failed"

AddTopicForget(topics, normalized) == topics
\* existing_topics.add(normalized)
AddTopic(topics, normalized) == topics \cup {normalized}

IsDuplicateNever(normalized, topics) == FALSE
\* if normalized in existing_topics: continue
IsDuplicate(normalized, topics) == normalized \in topics

PrependItem(items, item) == <<item>> \o items
\* aggregated_items.append(item)
AppendItem(items, item) == Append(items, item)

CaptureMetaLast(meta, response) == response

CaptureMetaNever(meta, response) == meta
\* if worksheet_meta is None: worksheet_meta = parsed
CaptureMeta(meta, response) == IF ~meta.some THEN response ELSE meta

RunInit ==
    /\ pc = "start"
    /\ mode \in Modes
    /\ question_count \in QuestionCounts(mode)
    /\ RunBlank /\ TailBlank
    /\ PlanIdle /\ RenderIdle /\ SideIdle

\* batch_sizes = calculate_batches(question_count, max_batch=10) raises
StartRaise ==
    /\ pc = "start"
    /\ CalculateBatches(question_count, MAX_BATCH).error # None
    /\ error' = CalculateBatches(question_count, MAX_BATCH).error
    /\ pc' = "raised"
    /\ UNCHANGED <<mode, question_count, batch_sizes, index, aggregated_items,
                   existing_topics, worksheet_meta, parsed, pos, calls, result,
                   worksheet, start_items, start_topics, origin, in_flight, returned_keys, restVars>>

\* batch_sizes = calculate_batches(...); aggregated_items = []; existing_topics = set();
\* worksheet_meta = None; the for loop takes its first batch
Start ==
    /\ pc = "start"
    /\ CalculateBatches(question_count, MAX_BATCH).error = None
    /\ batch_sizes' = CalculateBatches(question_count, MAX_BATCH).value
    /\ aggregated_items' = <<>>
    /\ existing_topics' = {}
    /\ worksheet_meta' = NoWorksheet
    /\ origin' = <<>>
    /\ index' = 1
    /\ pc' = "call"
    /\ UNCHANGED <<mode, question_count, parsed, pos, calls, error, result,
                   worksheet, start_items, start_topics, in_flight, returned_keys, restVars>>

ThisPrompt == Prompt(index, Len(batch_sizes), batch_sizes[index], existing_topics)

\* the entry of the call log for the call that came back
Answered(log, kind, answer) ==
    [log EXCEPT ![Len(log)] = Call(log[Len(log)].prompt, kind, answer)]

\* response = client.models.generate_content(...): the prompt is built and the
\* call leaves; the run is suspended until it comes back
IssueCall ==
    /\ pc = "call"
    /\ calls' = Append(calls, Call(ThisPrompt, "pending", NoWorksheet))
    /\ in_flight' = in_flight + 1
    /\ pc' = "wait"
    /\ UNCHANGED <<mode, question_count, batch_sizes, index, aggregated_items,
                   existing_topics, worksheet_meta, parsed, pos, error, result,
                   worksheet, start_items, start_topics, origin, returned_keys, restVars>>

\* a tolerant variant: the failed batch is skipped and the loop goes on
SkipBatch(kind) ==
    /\ pc = "wait"
    /\ \E o \in Outcomes(mode, index, batch_sizes[index]) : o.kind = kind
    /\ calls' = Answered(calls, kind, NoWorksheet)
    /\ in_flight' = in_flight - 1
    /\ parsed' = NoWorksheet
    /\ pos' = 1
    /\ start_items' = aggregated_items
    /\ start_topics' = existing_topics
    /\ pc' = "items"
    /\ UNCHANGED <<mode, question_count, batch_sizes, index, aggregated_items,
                   existing_topics, worksheet_meta, error, result, worksheet, origin,
                   returned_keys, restVars>>

GenerateRaiseSkip == SkipBatch("raise")

GenerateEmptySkip == SkipBatch("none")

\* generate_content raises: except Exception as e: raise e
GenerateRaise ==
    /\ pc = "wait"
    /\ \E o \in Outcomes(mode, index, batch_sizes[index]) : o.kind = "raise"
    /\ calls' = Answered(calls, "raise", NoWorksheet)
    /\ in_flight' = in_flight - 1
    /\ error' = UPSTREAM_ERROR
    /\ pc' = "raised"
    /\ UNCHANGED <<mode, question_count, batch_sizes, index, aggregated_items,
                   existing_topics, worksheet_meta, parsed, pos, result,
                   worksheet, start_items, start_topics, origin, returned_keys, restVars>>

\* a retrying variant: after an empty answer the same batch is called again
GenerateEmptyRetry ==
    /\ pc = "wait"
    /\ \E o \in Outcomes(mode, index, batch_sizes[index]) : o.kind = "none"
    /\ calls' = Answered(calls, "none", NoWorksheet)
    /\ in_flight' = in_flight - 1
    /\ pc' = "call"
    /\ UNCHANGED <<mode, question_count, batch_sizes, index, aggregated_items,
                   existing_topics, worksheet_meta, parsed, pos, error, result,
                   worksheet, start_items, start_topics, origin, returned_keys, restVars>>

\* response.parsed is None: raise ValueError("[Agent 2] Empty response from Gemini")
GenerateEmpty ==
    /\ pc = "wait"
    /\ \E o \in Outcomes(mode, index, batch_sizes[index]) : o.kind = "none"
    /\ calls' = Answered(calls, "none", NoWorksheet)
    /\ in_flight' = in_flight - 1
    /\ parsed' = NoWorksheet
    /\ error' = EMPTY_RESPONSE
    /\ pc' = "raised"
    /\ UNCHANGED <<mode, question_count, batch_sizes, index, aggregated_items,
                   existing_topics, worksheet_meta, pos, result,
                   worksheet, start_items, start_topics, origin, returned_keys, restVars>>

\* the call answers a Worksheet; the metadata is captured if none is yet and
\* the loop over parsed.items starts
GenerateParsed ==
    /\ pc = "wait"
    /\ in_flight' = in_flight - 1
    /\ \E o \in Outcomes(mode, index, batch_sizes[index]) :
          /\ o.kind = "parsed"
          /\ parsed' = o.parsed
          /\ worksheet_meta' = CaptureMeta(worksheet_meta, o.parsed)
          /\ calls' = Answered(calls, "parsed", o.parsed)
          /\ returned_keys' = returned_keys \cup
                {NormalizeTopic(o.parsed.v.items[i].question) :
                    i \in 1..Len(o.parsed.v.items)}
    /\ pos' = 1
    /\ start_items' = aggregated_items
    /\ start_topics' = existing_topics
    /\ pc' = "items"
    /\ UNCHANGED <<mode, question_count, batch_sizes, index, aggregated_items,
                   existing_topics, error, result, worksheet, origin, restVars>>

\* a truncating variant: items beyond the batch size are dropped
ProcessItemTruncating ==
    /\ pc = "items"
    /\ pos <= Len(parsed.v.items)
    /\ LET item == parsed.v.items[pos]
           normalized == NormalizeTopic(item.question)
       IN  IF IsDuplicate(normalized, existing_topics) \/ pos > batch_sizes[index]
           THEN UNCHANGED <<existing_topics, aggregated_items, origin>>
           ELSE /\ existing_topics' = AddTopic(existing_topics, normalized)
                /\ aggregated_items' = AppendItem(aggregated_items, item)
                /\ origin' = Append(origin, <<index, pos>>)
    /\ pos' = pos + 1
    /\ UNCHANGED <<pc, mode, question_count, batch_sizes, index, worksheet_meta,
                   parsed, calls, error, result, worksheet, start_items,
                   start_topics, in_flight, returned_keys, restVars>>

\* one iteration of for item in parsed.items
ProcessItem ==
    /\ pc = "items"
    /\ pos <= Len(parsed.v.items)
    /\ LET item == parsed.v.items[pos]
           normalized == NormalizeTopic(item.question)
       IN  IF IsDuplicate(normalized, existing_topics)
           THEN UNCHANGED <<existing_topics, aggregated_items, origin>>
           ELSE /\ existing_topics' = AddTopic(existing_topics, normalized)
                /\ aggregated_items' = AppendItem(aggregated_items, item)
                /\ origin' = Append(origin, <<index, pos>>)
    /\ pos' = pos + 1
    /\ UNCHANGED <<pc, mode, question_count, batch_sizes, index, worksheet_meta,
                   parsed, calls, error, result, worksheet, start_items,
                   start_topics, in_flight, returned_keys, restVars>>

\* a hasty variant: the next batch is taken while items are still unprocessed
NextBatchEarly ==
    /\ pc = "items"
    /\ index < Len(batch_sizes)
    /\ index' = index + 1
    /\ pc' = "call"
    /\ UNCHANGED <<mode, question_count, batch_sizes, aggregated_items,
                   existing_topics, worksheet_meta, parsed, pos, calls, error,
                   result, worksheet, start_items, start_topics, origin,
                   in_flight, returned_keys, restVars>>

\* a variant whose batch loop does not advance: the same batch is called again
NextBatchAgain ==
    /\ pc = "items"
    /\ pos > Len(parsed.v.items)
    /\ index < Len(batch_sizes)
    /\ index' = index
    /\ pc' = "call"
    /\ UNCHANGED <<mode, question_count, batch_sizes, aggregated_items,
                   existing_topics, worksheet_meta, parsed, pos, calls, error,
                   result, worksheet, start_items, start_topics, origin, in_flight, returned_keys, restVars>>

\* the item loop is exhausted and the batch loop takes the next batch
NextBatch ==
    /\ pc = "items"
    /\ pos > Len(parsed.v.items)
    /\ index < Len(batch_sizes)
    /\ index' = index + 1
    /\ pc' = "call"
    /\ UNCHANGED <<mode, question_count, batch_sizes, aggregated_items,
                   existing_topics, worksheet_meta, parsed, pos, calls, error,
                   result, worksheet, start_items, start_topics, origin, in_flight, returned_keys, restVars>>

\* a strict variant: a run that accepted nothing fails
FinishFailsWhenEmpty ==
    /\ pc = "items"
    /\ pos > Len(parsed.v.items)
    /\ ~(index < Len(batch_sizes))
    /\ IF ~worksheet_meta.some \/ aggregated_items = <<>>
       THEN /\ error' = NO_BATCHES
            /\ pc' = "raised"
            /\ UNCHANGED result
       ELSE /\ result' = Some(Worksheet(worksheet_meta.v.title, worksheet_meta.v.subject,
                                        worksheet_meta.v.target_level, aggregated_items))
            /\ pc' = "returned"
            /\ UNCHANGED error
    /\ UNCHANGED <<mode, question_count, batch_sizes, index, aggregated_items,
                   existing_topics, worksheet_meta, parsed, pos, calls,
                   worksheet, start_items, start_topics, origin, in_flight, returned_keys, restVars>>

\* both loops are exhausted: if worksheet_meta is None: raise ...; return Worksheet(...)
Finish ==
    /\ pc = "items"
    /\ pos > Len(parsed.v.items)
    /\ ~(index < Len(batch_sizes))
    /\ IF ~worksheet_meta.some
       THEN /\ error' = NO_BATCHES
            /\ pc' = "raised"
            /\ UNCHANGED result
       ELSE /\ result' = Some(Worksheet(worksheet_meta.v.title, worksheet_meta.v.subject,
                                        worksheet_meta.v.target_level, aggregated_items))
            /\ pc' = "returned"
            /\ UNCHANGED error
    /\ UNCHANGED <<mode, question_count, batch_sizes, index, aggregated_items,
                   existing_topics, worksheet_meta, parsed, pos, calls,
                   worksheet, start_items, start_topics, origin, in_flight, returned_keys, restVars>>

\* generate_exam: worksheet = reindex_exam_items(worksheet)
Reindex ==
    /\ pc = "returned"
    /\ worksheet' = Some(ReindexExamItems(result.v))
    /\ pc' = "reindexed"
    /\ UNCHANGED <<mode, question_count, batch_sizes, index, aggregated_items,
                   existing_topics, worksheet_meta, parsed, pos, calls, error,
                   result, start_items, start_topics, origin, in_flight, returned_keys, restVars>>

\* generate_exam: allowed_counts
allowed_counts == {10, 20, 30, 50}

PARTIAL_SUCCESS == "Generated {total_generated} of {question_count} questions. Partial success due to model output variability."

WarningAtMost(total, requested) ==
    IF total <= requested THEN PARTIAL_SUCCESS ELSE None
\* warning = None; if total_generated < question_count: warning = (...)
WarningFor(total, requested) ==
    IF total < requested THEN PARTIAL_SUCCESS ELSE None

\* generate_exam, for a request that passed validation:
\* total_generated = len(worksheet.items) and the warning
CountItems ==
    /\ pc = "reindexed"
    /\ question_count \in allowed_counts
    /\ total_generated' = Len(worksheet.v.items)
    /\ warning' = WarningFor(Len(worksheet.v.items), question_count)
    /\ pc' = "counted"
    /\ UNCHANGED <<mode, question_count, batch_sizes, index, aggregated_items,
                   existing_topics, worksheet_meta, parsed, pos, calls, error,
                   result, worksheet, start_items, start_topics, origin,
                   in_flight, returned_keys, reply, planVars, sideVars, renderVars, docx>>

\* generate_exam: generate_docx(worksheet, str(output_path))
GenerateDocx ==
    /\ pc = "counted"
    /\ docx' = worksheet
    /\ pc' = "rendered"
    /\ UNCHANGED <<mode, question_count, batch_sizes, index, aggregated_items,
                   existing_topics, worksheet_meta, parsed, pos, calls, error,
                   result, worksheet, start_items, start_topics, origin,
                   in_flight, returned_keys, tailVars, planVars, sideVars, renderVars>>

\* generate_exam: return {"status": "success", ...}
Respond ==
    /\ pc = "rendered"
    /\ reply' = Some([status |-> "success",
                      requested_count |-> question_count,
                      total_generated |-> total_generated,
                      batches_planned |->
                          Len(CalculateBatches(question_count, MAX_BATCH).value),
                      warning |-> warning])
    /\ pc' = "responded"
    /\ UNCHANGED <<mode, question_count, batch_sizes, index, aggregated_items,
                   existing_topics, worksheet_meta, parsed, pos, calls, error,
                   result, worksheet, start_items, start_topics, origin,
                   in_flight, returned_keys, total_generated, warning, planVars, sideVars, renderVars, docx>>

Next ==
    \/ StartRaise \/ Start
    \/ IssueCall
    \/ GenerateRaise \/ GenerateEmpty \/ GenerateParsed
    \/ ProcessItem \/ NextBatch \/ Finish
    \/ Reindex \/ CountItems \/ GenerateDocx \/ Respond

Spec == RunInit /\ [][Next]_vars

(***************************************************************************)
(* reindex_exam_items, statement by statement, called by render_docx       *)
(***************************************************************************)
MaxRenderItems == 3

\* an item with every optional field filled in and an id out of sequence
FullItem ==
    [ExamItem(7, <<"Q", "u", "x", "?">>, "multiple_choice", FourOptions, "d")
        EXCEPT !.explanation = "because", !.image_prompt = "Diagram of a quux"]

\* the items of a worksheet a client posts: ids repeat, are unordered and
\* non-positive
RenderPool == ItemPool \cup {FullItem}

\* request.worksheet of /api/render-docx
RenderRequests ==
    {Worksheet("Title A", "Subject A", "Level A", items) :
        items \in UNION {[1..k -> RenderPool] : k \in 0..MaxRenderItems}}

ItemCopyFromZero(item, position) == [item EXCEPT !.id = position - 1]
\* item.model_copy(update={"id": index}): the new object
ItemCopy(item, position) == [item EXCEPT !.id = position]

ItemAfterSetId(item, position) == [item EXCEPT !.id = position]
\* item.model_copy(update={"id": index}): the object copied from, afterwards
ItemAfterCopy(item, position) == item

\* worksheet.model_copy(update={"items": reindexed_items}): the new object
WorksheetCopy(w, items) == [w EXCEPT !.items = items]

RenderInit ==
    /\ r_pc = "entry"
    /\ r_worksheet \in {Some(w) : w \in RenderRequests}
    /\ r_given = r_worksheet
    /\ r_reindexed_items = <<>> /\ r_index = 0 /\ r_result = NoWorksheet
    /\ r_twice = NoWorksheet /\ docx = NoWorksheet
    /\ RunIdle /\ PlanIdle /\ SideIdle

\* reindexed_items = []; the for loop takes the first item
ReindexEnter ==
    /\ r_pc = "entry"
    /\ r_reindexed_items' = <<>>
    /\ r_index' = 1
    /\ r_pc' = "loop"
    /\ UNCHANGED <<r_worksheet, r_given, r_result, r_twice, docx,
                   planVars, sideVars, runVars, tailVars>>

\* one iteration of for index, item in enumerate(worksheet.items, start=1)
ReindexStep ==
    /\ r_pc = "loop"
    /\ r_index <= Len(r_worksheet.v.items)
    /\ LET item == r_worksheet.v.items[r_index]
       IN  /\ r_reindexed_items' = Append(r_reindexed_items, ItemCopy(item, r_index))
           /\ r_worksheet' =
                 [r_worksheet EXCEPT !.v.items[r_index] = ItemAfterCopy(item, r_index)]
    /\ r_index' = r_index + 1
    /\ UNCHANGED <<r_pc, r_given, r_result, r_twice, docx,
                   planVars, sideVars, runVars, tailVars>>

\* return worksheet.model_copy(update={"items": reindexed_items})
ReindexReturn ==
    /\ r_pc = "loop"
    /\ r_index > Len(r_worksheet.v.items)
    /\ r_result' = Some(WorksheetCopy(r_worksheet.v, r_reindexed_items))
    /\ r_pc' = "returned"
    /\ UNCHANGED <<r_worksheet, r_given, r_reindexed_items, r_index, r_twice, docx,
                   planVars, sideVars, runVars, tailVars>>

\* render_docx: generate_docx(worksheet, str(output_path))
RenderDocx ==
    /\ r_pc = "returned"
    /\ docx' = r_result
    /\ r_pc' = "rendered"
    /\ UNCHANGED <<r_worksheet, r_given, r_reindexed_items, r_index, r_result,
                   r_twice, planVars, sideVars, runVars, tailVars>>

\* reindex_exam_items is called on the worksheet it returned
ReindexAgain ==
    /\ r_pc = "returned"
    /\ r_twice' = Some(ReindexExamItems(r_result.v))
    /\ r_pc' = "again"
    /\ UNCHANGED <<r_worksheet, r_given, r_reindexed_items, r_index, r_result,
                   docx, planVars, sideVars, runVars, tailVars>>

RenderNext ==
    \/ ReindexEnter \/ ReindexStep \/ ReindexReturn
    \/ RenderDocx \/ ReindexAgain

SpecRender == RenderInit /\ [][RenderNext]_vars

(***************************************************************************)
(* normalize_topic called on a text and on a variant of the text           *)
(***************************************************************************)
MaxText == 4

\* the characters the texts are written with
NormChars == {"A", "b", " ", "\t"}

Texts == UNION {[1..k -> NormChars] : k \in 0..MaxText}

\* the other case of a letter
SwapCase(c) ==
    IF \E i \in 1..Len(UpperChars) : UpperChars[i] = c
    THEN LowerChar(c)
    ELSE IF \E i \in 1..Len(LowerChars) : LowerChars[i] = c
         THEN UpperChars[CHOOSE i \in 1..Len(LowerChars) : LowerChars[i] = c]
         ELSE c

RemoveAt(t, i) == SubSeq(t, 1, i - 1) \o SubSeq(t, i + 1, Len(t))
InsertAfter(t, i, c) == SubSeq(t, 1, i) \o <<c>> \o SubSeq(t, i + 1, Len(t))

\* the whitespace characters the edits add
PadChars == NormChars \cap Whitespace

\* the texts one edit away from t: the case of one letter changed, one
\* whitespace character added or removed at an end, or one whitespace
\* character added to or removed from a run of whitespace
Variants(t) ==
    {[t EXCEPT ![i] = SwapCase(t[i])] : i \in 1..Len(t)}
    \cup {<<w>> \o t : w \in PadChars} \cup {Append(t, w) : w \in PadChars}
    \cup {RemoveAt(t, i) : i \in {j \in {1, Len(t)} \cap (1..Len(t)) : t[j] \in Whitespace}}
    \cup {InsertAfter(t, i, w) : i \in {j \in 1..Len(t) : t[j] \in Whitespace},
                                 w \in PadChars}
    \cup {RemoveAt(t, i) :
            i \in {j \in 1..(Len(t) - 1) : t[j] \in Whitespace /\ t[j + 1] \in Whitespace}}

NormInit ==
    /\ n_pc = "entry"
    /\ n_text \in Texts
    /\ n_other = n_text
    /\ n_key = <<>> /\ n_other_key = <<>>
    /\ PlanIdle /\ RunIdle /\ RenderIdle /\ HandlerIdle /\ AbandonIdle /\ TwoIdle

\* the second text is edited once more
Vary ==
    /\ n_pc = "entry"
    /\ \E t \in Variants(n_other) : Len(t) <= MaxText /\ n_other' = t
    /\ UNCHANGED <<n_pc, n_text, n_key, n_other_key,
                   planVars, runVars, tailVars, renderVars, docx,
                   handlerVars, abandonVars, twoVars>>

\* normalize_topic(n_text) and normalize_topic(n_other)
Normalize ==
    /\ n_pc = "entry"
    /\ n_key' = NormalizeTopic(n_text)
    /\ n_other_key' = NormalizeTopic(n_other)
    /\ n_pc' = "returned"
    /\ UNCHANGED <<n_text, n_other, planVars, runVars, tailVars, renderVars, docx,
                   handlerVars, abandonVars, twoVars>>

NormNext == Vary \/ Normalize

SpecNormalize == NormInit /\ [][NormNext]_vars

(***************************************************************************)
(* Both endpoints that render a document                                   *)
(***************************************************************************)
\* a request to /generate-exam from the call of agent_architect on, or a
\* request to /api/render-docx
SpecEndpoints == (RunInit \/ RenderInit) /\ [][Next \/ RenderNext]_vars

(***************************************************************************)
(* The caller goes away during a run                                       *)
(***************************************************************************)
\* the client of /generate-exam disconnects while agent_architect is inside
\* its batch loop; generate_exam calls agent_architect synchronously and
\* nothing in either looks at the connection, so only the history changes
Abandon ==
    /\ pc \in {"call", "wait", "items"}
    /\ ~abandoned
    /\ abandoned' = TRUE
    /\ started_at_abandon' = index
    /\ UNCHANGED <<planVars, runVars, tailVars, renderVars, docx, normVars, handlerVars,
                   twoVars>>

SpecAbandon == RunInit /\ [][Next \/ Abandon]_vars

(***************************************************************************)
(* The three handlers of main.py that take a PDF                           *)
(***************************************************************************)
GENERATE_EXAM == "/generate-exam"
ANALYZE == "/api/analyze"
GENERATE_BATCH == "/api/generate-batch"
Endpoints == {GENERATE_EXAM, ANALYZE, GENERATE_BATCH}

\* the language name of the default request, by code point
LANG_THAI == "U+0E44 U+0E17 U+0E22"
allowed_languages == {LANG_THAI, "English"}
allowed_exam_types == {"auto", "multiple_choice", "true_false", "subjective"}

\* file: an upload; url: a file_url starting with http; bad_url: any other
\* non-empty file_url; none: neither
Sources == {"file", "url", "bad_url", "none"}

Requests ==
    [source : Sources,
     question_count : {7, 10, 20},
     language : {LANG_THAI, "English", "Deutsch"},
     exam_type : {"auto", "subjective", "essay"}]

\* how the collaborator behaves in a run started by the handler
HandlerModes == {"long"}

HTTPException(status, detail) == Exc("HTTPException", status, detail)
ValueError(detail) == Exc("ValueError", 0, detail)
OtherException(detail) == Exc("Exception", 0, detail)

outsideHandler == <<planVars, renderVars, normVars, abandonVars, twoVars>>

\* raise e inside the try block: generate_exam has except clauses, the other
\* two handlers have only the finally clause
Raise(e) ==
    /\ h_exception' = e
    /\ IF h_endpoint = GENERATE_EXAM
       THEN h_pc' = "except" /\ UNCHANGED h_leaving
       ELSE h_pc' = "finally" /\ h_leaving' = e

NoRaise == UNCHANGED <<h_exception, h_leaving>>

HandlerInit ==
    /\ h_pc = "source"
    /\ h_endpoint \in Endpoints
    /\ h_request \in Requests
    /\ h_file_path = FALSE /\ h_temp = FALSE /\ h_ai_calls = <<>>
    /\ h_exception = NoException /\ h_leaving = NoException
    /\ h_http = Absent(Http(0, <<>>))
    /\ PlanIdle /\ RunIdle /\ RenderIdle /\ NormIdle /\ AbandonIdle /\ TwoIdle

\* if file: copy to a NamedTemporaryFile(delete=False); elif file_url:
\* download_blob(file_url); else: raise HTTPException(422)
ResolveSource ==
    /\ h_pc = "source"
    /\ \/ /\ h_request.source \in {"file", "url"}
          /\ h_temp' = TRUE
          /\ h_file_path' = TRUE
          /\ h_pc' = IF h_endpoint = GENERATE_EXAM THEN "validate" ELSE "client"
          /\ NoRaise
       \/ /\ h_request.source = "url"
          \* response.raise_for_status(), before the temporary file is made
          /\ Raise(OtherException(<<"HTTPStatusError">>))
          /\ UNCHANGED <<h_temp, h_file_path>>
       \/ /\ h_request.source = "bad_url"
          /\ Raise(HTTPException(422, <<"Invalid file_url">>))
          /\ UNCHANGED <<h_temp, h_file_path>>
       \/ /\ h_request.source = "none"
          /\ Raise(HTTPException(422, <<"file or file_url is required">>))
          /\ UNCHANGED <<h_temp, h_file_path>>
    /\ UNCHANGED <<h_endpoint, h_request, h_ai_calls, h_http,
                   runVars, tailVars, docx, outsideHandler>>

\* the three checks of generate_exam, in order: the exception of the first
\* that fails
ValidationError(request) ==
    IF request.question_count \notin allowed_counts
    THEN HTTPException(422, <<"Invalid question_count. Allowed: 10, 20, 30, 50">>)
    ELSE IF request.language \notin allowed_languages
    THEN HTTPException(422, <<"Invalid language. Allowed: LANG_THAI, English">>)
    ELSE IF request.exam_type \notin allowed_exam_types
    THEN HTTPException(422, <<"Invalid exam_type. Allowed: auto, multiple_choice, true_false, subjective">>)
    ELSE NoException

\* generate_exam: 2. Validate inputs
Validate ==
    /\ h_pc = "validate"
    /\ IF ValidationError(h_request) # NoException
       THEN Raise(ValidationError(h_request))
       ELSE h_pc' = "client" /\ NoRaise
    /\ UNCHANGED <<h_endpoint, h_request, h_file_path, h_temp, h_ai_calls, h_http,
                   runVars, tailVars, docx, outsideHandler>>

\* client = get_client(api_key): ValueError when no key is configured
GetClient ==
    /\ h_pc = "client"
    /\ h_ai_calls' = Append(h_ai_calls, "get_client")
    /\ \/ h_pc' = "upload" /\ NoRaise
       \/ Raise(ValueError(<<"GEMINI_API_KEY not found">>))
    /\ UNCHANGED <<h_endpoint, h_request, h_file_path, h_temp, h_http,
                   runVars, tailVars, docx, outsideHandler>>

\* gemini_file = upload_to_gemini(client, file_path), which re-raises what
\* the upload raises
UploadToGemini ==
    /\ h_pc = "upload"
    /\ h_ai_calls' = Append(h_ai_calls, "upload_to_gemini")
    /\ \/ /\ h_pc' = IF h_endpoint = GENERATE_EXAM THEN "analyst" ELSE "exam_type"
          /\ NoRaise
       \/ Raise(OtherException(<<"upload failed">>))
    /\ UNCHANGED <<h_endpoint, h_request, h_file_path, h_temp, h_http,
                   runVars, tailVars, docx, outsideHandler>>

\* analyze_pdf and generate_batch_endpoint: if exam_type not in allowed_exam_types
CheckExamType ==
    /\ h_pc = "exam_type"
    /\ IF h_request.exam_type \notin allowed_exam_types
       THEN Raise(HTTPException(422, <<"Invalid exam_type. Allowed: auto, multiple_choice, true_false, subjective">>))
       ELSE /\ h_pc' = IF h_endpoint = ANALYZE THEN "analyst" ELSE "generate_batch"
            /\ NoRaise
    /\ UNCHANGED <<h_endpoint, h_request, h_file_path, h_temp, h_ai_calls, h_http,
                   runVars, tailVars, docx, outsideHandler>>

\* brief = agent_analyst(...); analyze_pdf then returns {"brief": brief}
AgentAnalyst ==
    /\ h_pc = "analyst"
    /\ h_ai_calls' = Append(h_ai_calls, "agent_analyst")
    /\ \/ /\ h_pc' = IF h_endpoint = GENERATE_EXAM THEN "architect" ELSE "finally"
          /\ NoRaise
       \/ Raise(OtherException(<<"agent_analyst failed">>))
    /\ UNCHANGED <<h_endpoint, h_request, h_file_path, h_temp, h_http,
                   runVars, tailVars, docx, outsideHandler>>

\* generate_batch_endpoint: worksheet = generate_batch(...) and the return
GenerateBatch ==
    /\ h_pc = "generate_batch"
    /\ h_ai_calls' = Append(h_ai_calls, "generate_batch")
    /\ \/ h_pc' = "finally" /\ NoRaise
       \/ Raise(OtherException(<<"generate_content failed">>))
       \/ Raise(ValueError(<<"[Batch] Empty response from Gemini">>))
    /\ UNCHANGED <<h_endpoint, h_request, h_file_path, h_temp, h_http,
                   runVars, tailVars, docx, outsideHandler>>

\* generate_exam: worksheet = agent_architect(..., question_count, ...) is entered
CallArchitect ==
    /\ h_pc = "architect"
    /\ pc = "idle"
    /\ h_ai_calls' = Append(h_ai_calls, "agent_architect")
    /\ pc' = "start"
    /\ mode' \in HandlerModes
    /\ question_count' = h_request.question_count
    /\ h_pc' = "pipeline"
    /\ UNCHANGED <<h_endpoint, h_request, h_file_path, h_temp, h_exception, h_leaving,
                   h_http, batch_sizes, index, aggregated_items, existing_topics,
                   worksheet_meta, parsed, pos, calls, error, result, worksheet,
                   start_items, start_topics, origin, in_flight, returned_keys,
                   tailVars, docx, outsideHandler>>

\* the class of the exception a run of agent_architect ended with
ExceptionOf(e) ==
    IF e \in {EMPTY_RESPONSE, NO_BATCHES} THEN ValueError(<<e>>) ELSE OtherException(<<e>>)

\* agent_architect raised: the exception arrives in generate_exam
ArchitectRaised ==
    /\ h_pc = "pipeline"
    /\ pc = "raised"
    /\ Raise(ExceptionOf(error))
    /\ UNCHANGED <<h_endpoint, h_request, h_file_path, h_temp, h_ai_calls, h_http,
                   runVars, tailVars, docx, outsideHandler>>

\* generate_docx(worksheet, str(output_path)) raises: no document is saved
GenerateDocxRaise ==
    /\ h_pc = "pipeline"
    /\ pc = "counted"
    /\ pc' = "failed"
    /\ Raise(OtherException(<<"generate_docx failed">>))
    /\ UNCHANGED <<h_endpoint, h_request, h_file_path, h_temp, h_ai_calls, h_http,
                   mode, question_count, batch_sizes, index, aggregated_items,
                   existing_topics, worksheet_meta, parsed, pos, calls, error,
                   result, worksheet, start_items, start_topics, origin,
                   in_flight, returned_keys, tailVars, docx, outsideHandler>>

\* generate_exam: the return statement has built the success body
Return ==
    /\ h_pc = "pipeline"
    /\ pc = "responded"
    /\ h_pc' = "finally"
    /\ UNCHANGED <<h_endpoint, h_request, h_file_path, h_temp, h_ai_calls,
                   h_exception, h_leaving, h_http,
                   runVars, tailVars, docx, outsideHandler>>

\* a variant that reports every failure as an internal error
HandledAsInternal(e) ==
    HTTPException(500, <<"Internal error">> \o e.detail)
\* the except clauses of generate_exam: the exception each one raises
Handled(e) ==
    IF e.class = "HTTPException" THEN e
    ELSE IF e.class = "ValueError"
    THEN HTTPException(500, <<"Configuration error">> \o e.detail)
    ELSE HTTPException(500, <<"Internal error">> \o e.detail)

\* generate_exam: except HTTPException / except ValueError / except Exception
Except ==
    /\ h_pc = "except"
    /\ h_leaving' = Handled(h_exception)
    /\ h_pc' = "finally"
    /\ UNCHANGED <<h_endpoint, h_request, h_file_path, h_temp, h_ai_calls,
                   h_exception, h_http,
                   runVars, tailVars, docx, outsideHandler>>

\* what the framework sends for the way the handler ended: the body returned,
\* the status and detail of an HTTPException, or 500 for any other exception
ResponseFor(leaving) ==
    IF leaving = NoException THEN Http(200, <<"success">>)
    ELSE IF leaving.class = "HTTPException" THEN Http(leaving.status, leaving.detail)
    ELSE Http(500, <<"Internal Server Error">>)

\* a variant whose cleanup runs on the success path only
FinallyOnSuccess ==
    /\ h_pc = "finally"
    /\ h_temp' = IF h_file_path /\ h_temp /\ h_leaving = NoException THEN FALSE ELSE h_temp
    /\ h_http' = Some(ResponseFor(h_leaving))
    /\ h_pc' = "done"
    /\ UNCHANGED <<h_endpoint, h_request, h_file_path, h_ai_calls,
                   h_exception, h_leaving,
                   runVars, tailVars, docx, outsideHandler>>

\* finally: if "file_path" in locals() and os.path.exists(file_path):
\* os.remove(file_path); then the handler ends and the response is sent
Finally ==
    /\ h_pc = "finally"
    /\ h_temp' = IF h_file_path /\ h_temp THEN FALSE ELSE h_temp
    /\ h_http' = Some(ResponseFor(h_leaving))
    /\ h_pc' = "done"
    /\ UNCHANGED <<h_endpoint, h_request, h_file_path, h_ai_calls,
                   h_exception, h_leaving,
                   runVars, tailVars, docx, outsideHandler>>

HandlerNext ==
    \/ ResolveSource \/ Validate \/ GetClient \/ UploadToGemini \/ CheckExamType
    \/ AgentAnalyst \/ GenerateBatch \/ CallArchitect \/ ArchitectRaised
    \/ GenerateDocxRaise \/ Return \/ Except \/ Finally

\* the steps of generate_exam from agent_architect to the return statement;
\* a validated question_count is positive, so calculate_batches does not raise
PipelineNext ==
    \/ Start
    \/ IssueCall
    \/ GenerateRaise \/ GenerateEmpty \/ GenerateParsed
    \/ ProcessItem \/ NextBatch \/ Finish
    \/ Reindex \/ CountItems \/ GenerateDocx \/ Respond

SpecHandler == HandlerInit /\ [][HandlerNext \/ PipelineNext]_vars

(***************************************************************************)
(* Two requests at the same time                                           *)
(***************************************************************************)
\* items per answer in the runs of two concurrent requests
MaxItemsTwo == 1

Runs == {1, 2}

\* question_count of the two requests: one or two batches for the first, one
\* batch for the second (the two run the same code, so the other way round
\* is the same up to their names)
TwoCounts(r) == IF r = 1 THEN {7, 12} ELSE {7}

\* the locals of a call of agent_architect that has just been entered
EnteredRun(count) ==
    [pc |-> "start", question_count |-> count, batch_sizes |-> <<>>, index |-> 0,
     aggregated_items |-> <<>>, existing_topics |-> {}, worksheet_meta |-> NoWorksheet,
     parsed |-> NoWorksheet, pos |-> 0, error |-> None, result |-> NoWorksheet,
     answers |-> <<>>]

TwoInit ==
    /\ runs \in [Runs -> {EnteredRun(count) : count \in UNION {TwoCounts(r) : r \in Runs}}]
    /\ \A r \in Runs : runs[r].question_count \in TwoCounts(r)
    /\ PlanIdle /\ RunIdle /\ RenderIdle /\ NormIdle /\ HandlerIdle /\ AbandonIdle

\* a variant with the avoid-set at module level: one set for all runs
TopicsSharedBy(all, r) == UNION {all[q].existing_topics : q \in DOMAIN all}
\* existing_topics is a local of the call: the avoid-set run r reads
TopicsOf(all, r) == all[r].existing_topics

outsideTwo == <<planVars, runVars, tailVars, renderVars, docx, normVars, handlerVars,
                abandonVars>>

\* batch_sizes = calculate_batches(question_count, max_batch=10) and the
\* three initialisations; the counts of two requests are positive
TwoStart(r) ==
    /\ runs[r].pc = "start"
    /\ runs' = [runs EXCEPT ![r].batch_sizes =
                                CalculateBatches(runs[r].question_count, MAX_BATCH).value,
                            ![r].index = 1,
                            ![r].pc = "call"]
    /\ UNCHANGED outsideTwo

\* the generate_content call of the current batch of run r, and what follows
\* its answer up to the item loop
TwoCall(r) ==
    /\ runs[r].pc = "call"
    /\ \E o \in AnyOutcomes({StubMeta(runs[r].index)}, MaxItemsTwo) :
          runs' = [runs EXCEPT
                     ![r].answers = Append(@, o),
                     ![r].parsed = o.parsed,
                     ![r].pos = 1,
                     ![r].worksheet_meta =
                         IF o.kind = "parsed" THEN CaptureMeta(@, o.parsed) ELSE @,
                     ![r].error =
                         IF o.kind = "raise" THEN UPSTREAM_ERROR
                         ELSE IF o.kind = "none" THEN EMPTY_RESPONSE ELSE @,
                     ![r].pc = IF o.kind = "parsed" THEN "items" ELSE "raised"]
    /\ UNCHANGED outsideTwo

\* one iteration of for item in parsed.items, in run r
TwoItem(r) ==
    /\ runs[r].pc = "items"
    /\ runs[r].pos <= Len(runs[r].parsed.v.items)
    /\ LET item == runs[r].parsed.v.items[runs[r].pos]
           normalized == NormalizeTopic(item.question)
       IN  IF IsDuplicate(normalized, TopicsOf(runs, r))
           THEN runs' = [runs EXCEPT ![r].pos = @ + 1]
           ELSE runs' = [runs EXCEPT
                           ![r].existing_topics = AddTopic(@, normalized),
                           ![r].aggregated_items = AppendItem(@, item),
                           ![r].pos = @ + 1]
    /\ UNCHANGED outsideTwo

\* the item loop of run r is exhausted and its batch loop takes the next batch
TwoNextBatch(r) ==
    /\ runs[r].pc = "items"
    /\ runs[r].pos > Len(runs[r].parsed.v.items)
    /\ runs[r].index < Len(runs[r].batch_sizes)
    /\ runs' = [runs EXCEPT ![r].index = @ + 1, ![r].pc = "call"]
    /\ UNCHANGED outsideTwo

\* both loops of run r are exhausted: raise, or return Worksheet(...)
TwoFinish(r) ==
    /\ runs[r].pc = "items"
    /\ runs[r].pos > Len(runs[r].parsed.v.items)
    /\ ~(runs[r].index < Len(runs[r].batch_sizes))
    /\ IF ~runs[r].worksheet_meta.some
       THEN runs' = [runs EXCEPT ![r].error = NO_BATCHES, ![r].pc = "raised"]
       ELSE runs' = [runs EXCEPT
                       ![r].result = Some(Worksheet(runs[r].worksheet_meta.v.title,
                                                    runs[r].worksheet_meta.v.subject,
                                                    runs[r].worksheet_meta.v.target_level,
                                                    runs[r].aggregated_items)),
                       ![r].pc = "returned"]
    /\ UNCHANGED outsideTwo

TwoNext ==
    \E r \in Runs :
        TwoStart(r) \/ TwoCall(r) \/ TwoItem(r) \/ TwoNextBatch(r) \/ TwoFinish(r)

SpecTwo == TwoInit /\ [][TwoNext]_vars

\* runs with a positive question_count: two or three batches, a collaborator
\* that may raise or answer nothing at any call ("long"), and collaborators
\* that answer ten items and more at every call
TerminatesInit == RunInit /\ mode \in Modes \ {"any"}

\* calculate_batches on its own, or a run of agent_architect, where every
\* step that can be taken is eventually taken: the interpreter executes the
\* next statement, and a call of the collaborator that left comes back,
\* answered or raising
SpecTerminates ==
    /\ (PlanInit \/ TerminatesInit)
    /\ [][PlanNext \/ PipelineNext]_vars
    /\ WF_vars(PlanNext)
    /\ WF_vars(PipelineNext)

(***************************************************************************)
(* Properties of calculate_batches (checked under SpecPlan)                *)
(***************************************************************************)
RECURSIVE SumSeq(_)
SumSeq(q) == IF q = <<>> THEN 0 ELSE Head(q) + SumSeq(Tail(q))

CeilDiv(a, b) == (a + b - 1) \div b

\* C1: a returned batch list sums to total_count, has every element in
\* 1..max_batch and has ceil(total_count / max_batch) elements; the list the
\* loop builds is the list CalculateBatches denotes.
C1_PlanSumRangeLength ==
    p_pc = "returned" =>
        /\ p_total > 0 /\ p_max > 0
        /\ SumSeq(p_batches) = p_total
        /\ \A i \in 1..Len(p_batches) : p_batches[i] \in 1..p_max
        /\ Len(p_batches) = CeilDiv(p_total, p_max)
        /\ CalculateBatches(p_total, p_max) = [error |-> None, value |-> p_batches]

\* a returned plan of several batches with a remainder
C1_Witness ==
    /\ p_pc = "returned" /\ p_total = 25 /\ p_max = 7
    /\ Len(p_batches) = 4

\* C2: the returned list is the greedy split: every batch but the last is
\* max_batch, the last is total_count mod max_batch, or max_batch when that
\* is 0; plan(50,10) = [10,10,10,10,10] and plan(25,10) = [10,10,5].
C2_PlanGreedy ==
    p_pc = "returned" =>
        /\ Len(p_batches) >= 1
        /\ \A i \in 1..(Len(p_batches) - 1) : p_batches[i] = p_max
        /\ p_batches[Len(p_batches)] =
              (IF p_total % p_max # 0 THEN p_total % p_max ELSE p_max)
        /\ (p_total = 50 /\ p_max = 10) => p_batches = <<10, 10, 10, 10, 10>>
        /\ (p_total = 25 /\ p_max = 10) => p_batches = <<10, 10, 5>>

\* the plan of 25 with batches of 10 has been returned
C2_Witness ==
    p_pc = "returned" /\ p_total = 25 /\ p_max = 10 /\ p_batches = <<10, 10, 5>>

NonPositiveArgs == p_total <= 0 \/ p_max <= 0

\* C3: with total_count <= 0 or max_batch <= 0 the call raises a ValueError
\* and nothing else: the raise is the only step it can take, it never enters
\* the loop, builds no list and returns nothing.
C3_PlanRejects ==
    NonPositiveArgs =>
        /\ p_pc \in {"entry", "raised"}
        /\ p_batches = <<>>
        /\ p_pc = "entry" => (ENABLED PlanRaise /\ ~ENABLED PlanEnter)
        /\ p_pc = "raised" =>
              p_error = (IF p_total <= 0
                         THEN "ValueError: total_count must be positive"
                         ELSE "ValueError: max_batch must be positive")
        /\ CalculateBatches(p_total, p_max).error = ArgumentError(p_total, p_max)
        /\ CalculateBatches(p_total, p_max).value = <<>>

\* the call with both arguments negative has raised
C3_Witness == p_pc = "raised" /\ p_total < 0 /\ p_max < 0 /\ p_error # None

(***************************************************************************)
(* Properties of the deduplication in agent_architect (checked under Spec) *)
(***************************************************************************)
Key(item) == NormalizeTopic(item.question)

KeysOf(items) == {Key(items[i]) : i \in 1..Len(items)}

\* the candidates to accept, said without a loop: those whose key is not an
\* existing key and is not the key of an earlier candidate
AcceptedPositions(existing_keys, candidates) ==
    {i \in 1..Len(candidates) :
        /\ Key(candidates[i]) \notin existing_keys
        /\ \A j \in 1..(i - 1) : Key(candidates[j]) # Key(candidates[i])}

\* the elements of q at the positions P, in the order of q
RECURSIVE AtPositions(_, _)
AtPositions(q, P) ==
    IF P = {} THEN <<>>
    ELSE LET m == CHOOSE i \in P : \A j \in P : i <= j
         IN  <<q[m]>> \o AtPositions(q, P \ {m})

Accepted(existing_keys, candidates) ==
    AtPositions(candidates, AcceptedPositions(existing_keys, candidates))

\* the candidates of the current batch already taken by the item loop
Processed == SubSeq(parsed.v.items, 1, pos - 1)

\* C4: the dedup step of a batch.  After any number of candidates, what has
\* been appended to the aggregate since the batch began is exactly the
\* candidates with a key that is neither an existing key nor the key of an
\* earlier candidate, in their order; the key set is the existing keys plus
\* the keys of the accepted; and no error is raised on the way.
C4_DedupStep ==
    pc = "items" =>
        /\ aggregated_items = start_items \o Accepted(start_topics, Processed)
        /\ existing_topics = start_topics \cup KeysOf(Accepted(start_topics, Processed))
        /\ error = None

\* a finished batch of three candidates whose first repeats an existing key,
\* whose second is new and whose third repeats the second: exactly the second
\* was accepted
C4_Witness ==
    /\ pc = "items" /\ index = 2 /\ Len(parsed.v.items) = 3 /\ pos = 4
    /\ start_topics # {}
    /\ Key(parsed.v.items[1]) \in start_topics
    /\ Key(parsed.v.items[2]) \notin start_topics
    /\ Key(parsed.v.items[3]) = Key(parsed.v.items[2])
    /\ aggregated_items = Append(start_items, parsed.v.items[2])

\* C5: at every point of a run the aggregate holds no two items with the same
\* normalized question, the avoid-set is exactly the set of the aggregate's
\* normalized questions and has the aggregate's length; after batch 1
\* returned 10 items and batch 2 five of them again plus 5 new ones, the
\* aggregate holds 15 items.
C5_NoDuplicateKeys ==
    /\ \A i, j \in 1..Len(aggregated_items) :
          Key(aggregated_items[i]) = Key(aggregated_items[j]) => i = j
    /\ existing_topics = KeysOf(aggregated_items)
    /\ Cardinality(existing_topics) = Len(aggregated_items)
    /\ (mode = "dup5" /\ pc = "items" /\ index = 2 /\ pos > Len(parsed.v.items))
          => Len(aggregated_items) = 15

\* batch 2 of the run with the repeating collaborator is done: 10 candidates
\* were processed, 5 of them dropped
C5_Witness ==
    /\ mode = "dup5" /\ pc = "items" /\ index = 2 /\ pos = 11
    /\ Len(start_items) = 10
    /\ Len(aggregated_items) = 15
    /\ \E i \in 1..10 : parsed.v.items[i].question \notin
                          {aggregated_items[k].question : k \in 1..15}

(***************************************************************************)
(* Properties of a whole run of agent_architect (checked under Spec)       *)
(***************************************************************************)
Ids(w) == [i \in 1..Len(w.items) |-> w.items[i].id]

Count(n) == [i \in 1..n |-> i]

\* the run of 25 questions against the collaborator answering 10 new items
\* on every call has ended and its worksheet has been reindexed
Stub25Done == mode = "unique10" /\ question_count = 25 /\ pc = "reindexed"

\* C6 as stated: that run makes 3 calls and yields 25 items with ids 1..25.
C6_Original ==
    Stub25Done =>
        /\ Len(calls) = 3
        /\ Len(worksheet.v.items) = 25
        /\ Ids(worksheet.v) = Count(25)

\* C6, amended: that run makes exactly 3 calls, asking for 10, 10 and 5
\* questions, and yields all 30 returned items with ids 1..30; the run yields
\* 25 items with ids 1..25 when every call answers as many new items as its
\* batch asks for.
C6_EndToEnd ==
    /\ Stub25Done =>
          /\ Len(calls) = 3
          /\ [i \in 1..3 |-> calls[i].prompt.question_count] = <<10, 10, 5>>
          /\ Len(result.v.items) = 30
          /\ Len(worksheet.v.items) = 30
          /\ Ids(worksheet.v) = Count(30)
    /\ (mode = "exact" /\ question_count = 25 /\ pc = "reindexed") =>
          /\ Len(calls) = 3
          /\ Len(worksheet.v.items) = 25
          /\ Ids(worksheet.v) = Count(25)

\* the reindexed result of the run of 25 against the collaborator answering
\* 10 items per call; the ids before the reindex were 1..10 three times
C6_Witness ==
    /\ Stub25Done
    /\ Len(calls) = 3
    /\ Ids(result.v) = Count(10) \o Count(10) \o Count(10)

\* the run is over
Ended == pc \in {"returned", "raised", "reindexed", "counted", "rendered", "responded"}

\* C7 as stated: an answer without a parsed payload loses only its batch; the
\* run goes on with the remaining batches and returns a worksheet.
C7_Original ==
    (/\ \E k \in 1..Len(calls) : calls[k].outcome = "none"
     /\ \E j \in 1..Len(calls) : calls[j].outcome = "parsed")
        => pc # "raised"

\* C7, amended: an answer without a parsed payload at batch k ends the whole
\* run with the ValueError of that batch: the k-th call is the last one, the
\* remaining planned batches are not attempted and no worksheet is returned.
C7_EmptyAborts ==
    (calls # <<>> /\ calls[Len(calls)].outcome = "none") =>
        /\ pc = "raised"
        /\ error = EMPTY_RESPONSE
        /\ Len(calls) = index
        /\ \A i \in 1..(index - 1) : calls[i].outcome = "parsed"
        /\ ~result.some /\ ~worksheet.some

\* batch 2 of 3 had no parsed payload after batch 1 contributed items: the
\* run has raised with batch 3 never called
C7_Witness ==
    /\ pc = "raised" /\ error = EMPTY_RESPONSE
    /\ index = 2 /\ Len(batch_sizes) = 3 /\ Len(calls) = 2
    /\ aggregated_items # <<>>

\* C8: a generation error at batch k (the call raises, or its parsed payload
\* is None) aborts the run: the error reaches the caller, no worksheet is
\* returned, nothing is made of the items of batches 1..k-1, call k is the
\* last call, and nothing happens afterwards.
C8_BatchErrorAborts ==
    /\ [](\A k \in 1..Len(calls) :
            calls[k].outcome \in {"raise", "none"} =>
                /\ k = Len(calls) /\ k = index
                /\ pc = "raised"
                /\ error = (IF calls[k].outcome = "raise"
                            THEN UPSTREAM_ERROR ELSE EMPTY_RESPONSE)
                /\ ~result.some /\ ~worksheet.some)
    /\ [][pc = "raised" => UNCHANGED vars]_vars

\* the call of batch 2 of 3 raised after batch 1 contributed items
C8_Witness ==
    /\ pc = "raised" /\ error = UPSTREAM_ERROR
    /\ index = 2 /\ Len(batch_sizes) = 3 /\ Len(calls) = 2
    /\ aggregated_items # <<>> /\ ~result.some

\* every call made so far answered without a parsed payload
AllEmpty == calls # <<>> /\ \A i \in 1..Len(calls) : calls[i].outcome = "none"

\* C9 as stated: when every call answers without a parsed payload, all
\* planned batches are attempted and the run fails with the error raised
\* after the loop.
C9_Original ==
    (Ended /\ AllEmpty) =>
        /\ Len(calls) = Len(batch_sizes)
        /\ error = NO_BATCHES

\* C9, amended: when the calls answer without a parsed payload, the run fails
\* at its first batch with the ValueError of that batch, after one call,
\* whatever the number of planned batches; no run fails with the error raised
\* after the loop.
C9_AllEmptyFailsAtFirst ==
    /\ AllEmpty =>
          /\ pc = "raised"
          /\ error = EMPTY_RESPONSE
          /\ Len(calls) = 1 /\ index = 1
          /\ ~result.some
    /\ error # NO_BATCHES

\* a run of three planned batches whose first call had no parsed payload
C9_Witness ==
    /\ Ended /\ AllEmpty /\ Len(batch_sizes) = 3 /\ Len(calls) = 1
    /\ error = EMPTY_RESPONSE

\* the first call with a parsed answer
FirstParsed == CHOOSE i \in 1..Len(calls) :
                 /\ calls[i].outcome = "parsed"
                 /\ \A j \in 1..(i - 1) : calls[j].outcome # "parsed"

\* C10: the metadata captured, and that of the returned worksheet, is that of
\* the first batch with a parsed answer; once captured it never changes,
\* whatever the later batches answer.
C10_FirstMetadata ==
    /\ [](worksheet_meta.some =>
            /\ \E i \in 1..Len(calls) : calls[i].outcome = "parsed"
            /\ MetaOf(worksheet_meta.v) = calls[FirstParsed].meta)
    /\ [](result.some => MetaOf(result.v) = calls[FirstParsed].meta)
    /\ [](worksheet.some => MetaOf(worksheet.v) = calls[FirstParsed].meta)
    /\ [][worksheet_meta.some => worksheet_meta' = worksheet_meta]_vars

\* a returned worksheet of a run of three batches whose second batch answered
\* other metadata than its first and its third
C10_Witness ==
    /\ pc = "returned" /\ Len(calls) = 3
    /\ calls[2].meta # calls[1].meta
    /\ calls[3].meta = calls[1].meta
    /\ MetaOf(result.v) = calls[1].meta
    /\ mode = "long"

(***************************************************************************)
(* Order of the aggregate (checked under Spec)                             *)
(***************************************************************************)
\* (batch, position) pairs in the order of generation
OriginLess(a, b) == a[1] < b[1] \/ (a[1] = b[1] /\ a[2] < b[2])

OrderedByOrigin ==
    /\ Len(origin) = Len(aggregated_items)
    /\ \A i, j \in 1..Len(origin) : i < j => OriginLess(origin[i], origin[j])
    /\ \A i \in 1..Len(origin) :
          (pc = "items" /\ origin[i][1] = index)
              => aggregated_items[i] = parsed.v.items[origin[i][2]]
    /\ result.some => result.v.items = aggregated_items

KeepsPrefix ==
    \A i \in 1..Len(aggregated_items) :
        /\ i <= Len(aggregated_items')
        /\ aggregated_items'[i] = aggregated_items[i]

\* C11: in the aggregate, and in the worksheet agent_architect returns, an
\* item accepted from an earlier batch precedes every item accepted from a
\* later batch, items of one batch keep the order of the collaborator's
\* answer, and no step moves or removes an item already appended.
C11_BatchOrder == [](OrderedByOrigin) /\ [][KeepsPrefix]_vars

\* a returned aggregate holding several items of batch 1 followed by items of
\* a later batch
C11_Witness ==
    /\ pc = "returned" /\ Len(origin) >= 3
    /\ origin[1][1] = 1 /\ origin[2][1] = 1
    /\ origin[Len(origin)][1] >= 2
    /\ result.v.items = aggregated_items

(***************************************************************************)
(* The avoid-topics text of each call (checked under Spec)                 *)
(***************************************************************************)
\* the normalized questions of the items accepted from batches before batch k
KeysBefore(k) ==
    {NormalizeTopic(aggregated_items[i].question) :
        i \in {j \in 1..Len(aggregated_items) : origin[j][1] < k}}

\* the elements of a set of texts in ascending order: the i-th is the one
\* with i - 1 elements below it
Ascending(K) ==
    [i \in 1..Cardinality(K) |->
        CHOOSE x \in K : Cardinality({y \in K : StrLess(y, x)}) = i - 1]

AvoidTextOf(k, log) ==
    LET text == log[k].prompt.avoid_topics
        K == KeysBefore(k)
    IN  /\ log[k].prompt.batch_info[1] = k
        /\ k = 1 => K = {}
        /\ K = {} => text = NO_TOPICS
        /\ K # {} => /\ text = StrJoin(<<",", " ">>, Ascending(K))
                     /\ text # NO_TOPICS

LastBatchMerged ==
    /\ calls[Len(calls)].outcome = "parsed"
    /\ parsed.some /\ pos > Len(parsed.v.items)
    /\ \A p \in 1..Len(parsed.v.items) :
          /\ NormalizeTopic(parsed.v.items[p].question) \in existing_topics
          /\ \E i \in 1..Len(aggregated_items) :
                NormalizeTopic(aggregated_items[i].question)
                    = NormalizeTopic(parsed.v.items[p].question)
    /\ existing_topics =
          {NormalizeTopic(aggregated_items[i].question) : i \in 1..Len(aggregated_items)}

OneCallAtATime ==
    /\ in_flight \in {0, 1}
    /\ in_flight = 1 <=> pc = "wait"
    /\ \A k \in 1..Len(calls) :
          /\ calls[k].prompt.batch_info[1] = k
          /\ calls[k].outcome = "pending" => (k = Len(calls) /\ in_flight = 1)

IssuedInTurn ==
    Len(calls') > Len(calls) =>
        /\ in_flight = 0 /\ in_flight' = 1
        /\ Len(calls') = Len(calls) + 1
        /\ calls'[Len(calls')].prompt.batch_info[1] = Len(calls) + 1
        /\ calls # <<>> => LastBatchMerged
        /\ UNCHANGED <<aggregated_items, existing_topics>>

\* C13: at most one call is in flight at any time, the k-th call issued is
\* the call of batch k, and a call is issued only when no call is in flight
\* and, unless it is the first, every item of the previous batch's answer
\* has been deduplicated and merged into the aggregate and the avoid-set.
C13_Sequential == [](OneCallAtATime) /\ [][IssuedInTurn]_vars

\* the call of batch 2 is in flight after an answer for batch 1 in which one
\* item was accepted and one was dropped as a duplicate
C13_Witness ==
    /\ pc = "wait" /\ in_flight = 1 /\ Len(calls) = 2
    /\ calls[1].outcome = "parsed" /\ calls[2].outcome = "pending"
    /\ Len(parsed.v.items) > Len(aggregated_items)
    /\ Len(aggregated_items) >= 1

(***************************************************************************)
(* One call per batch (checked under Spec)                                 *)
(***************************************************************************)
CallsWithinPlan ==
    /\ \A j, k \in 1..Len(calls) :
          j # k => calls[j].prompt.batch_info[1] # calls[k].prompt.batch_info[1]
    /\ \A k \in 1..Len(calls) : calls[k].prompt.batch_info[1] \in 1..Len(batch_sizes)
    /\ Len(calls) <= CeilDiv(question_count, MAX_BATCH)
    /\ \A k \in 1..Len(calls) :
          calls[k].outcome \in {"raise", "none"} => (k = Len(calls) /\ pc = "raised")
    /\ (Ended /\ \A k \in 1..Len(calls) : calls[k].outcome = "parsed")
          => Len(calls) = CeilDiv(question_count, MAX_BATCH)

CallLogGrowsByOne ==
    /\ Len(calls') \in {Len(calls), Len(calls) + 1}
    /\ \A k \in 1..Len(calls) :
          /\ calls'[k].prompt = calls[k].prompt
          /\ calls[k].outcome # "pending" => calls'[k] = calls[k]

\* C14: no batch index is called twice: the calls of a run carry pairwise
\* different batch indices, a failed call is the last call of the run, an
\* answered call is never issued again, a run issues at most
\* ceil(question_count / 10) calls, and exactly that many when the run has
\* ended and every call succeeded.
C14_OneCallPerBatch == [](CallsWithinPlan) /\ [][CallLogGrowsByOne]_vars

\* a run of three batches that ended with three successful calls
C14_Witness ==
    /\ pc = "returned" /\ question_count = 25 /\ Len(calls) = 3
    /\ \A k \in 1..3 : calls[k].outcome = "parsed"

(***************************************************************************)
(* Properties of reindex_exam_items (checked under SpecRender)             *)
(***************************************************************************)
\* the fields of an item other than id
OtherFields == {"question", "type", "options", "correct_answer", "explanation",
                "image_prompt"}

SameButId(a, b) == \A f \in OtherFields : a[f] = b[f]

\* C15: for a worksheet of N items with arbitrary ids, reindex_exam_items
\* returns a worksheet of N items, the i-th being the i-th item of the
\* argument with id i, so the ids are 1, 2, ..., N in the original order;
\* the loop returns the worksheet ReindexExamItems denotes.
C15_SequentialIds ==
    r_result.some =>
        LET given == r_given.v.items
            got == r_result.v.items
        IN  /\ Len(got) = Len(given)
            /\ \A i \in 1..Len(got) : got[i].id = i /\ SameButId(got[i], given[i])
            /\ r_result.v = ReindexExamItems(r_given.v)

\* a returned worksheet of three items whose original ids repeated, were out
\* of order and not positive
C15_Witness ==
    /\ r_pc = "returned" /\ Len(r_given.v.items) = 3
    /\ r_given.v.items[1].id = 7
    /\ r_given.v.items[2].id = r_given.v.items[1].id - 10
    /\ r_given.v.items[3].id = 1
    /\ [i \in 1..3 |-> r_result.v.items[i].id] = <<1, 2, 3>>

\* C16: the worksheet reindex_exam_items returns has the title, subject and
\* target level of its argument and, item by item, the argument's question,
\* type, options, correct_answer, explanation and image_prompt; the argument
\* object is at every step of the call, and after it, as it was given.
C16_OnlyIdsChange ==
    /\ r_pc # "idle" => r_worksheet = r_given
    /\ r_result.some =>
          /\ MetaOf(r_result.v) = MetaOf(r_given.v)
          /\ DOMAIN r_result.v = DOMAIN r_given.v
          /\ Len(r_result.v.items) = Len(r_given.v.items)
          /\ \A i \in 1..Len(r_given.v.items) :
                /\ SameButId(r_result.v.items[i], r_given.v.items[i])
                /\ DOMAIN r_result.v.items[i] = DOMAIN r_given.v.items[i]
                /\ r_worksheet.v.items[i].id = r_given.v.items[i].id

\* a returned worksheet whose first item got a new id and kept its optional
\* fields, the argument still carrying the old id
C16_Witness ==
    /\ r_pc = "returned" /\ Len(r_given.v.items) >= 2
    /\ r_given.v.items[1] = FullItem
    /\ r_result.v.items[1].id = 1
    /\ r_result.v.items[1].explanation = "because"
    /\ r_worksheet.v.items[1].id = 7

\* C17: reindex_exam_items applied to the worksheet it returned gives that
\* worksheet again: reindex(reindex(w)) = reindex(w).
C17_Idempotent ==
    r_twice.some =>
        /\ r_twice.v = r_result.v
        /\ ReindexExamItems(ReindexExamItems(r_given.v)) = ReindexExamItems(r_given.v)

\* the second application has been made on a worksheet the first one changed
C17_Witness ==
    /\ r_pc = "again" /\ r_twice.some
    /\ Len(r_given.v.items) >= 2
    /\ r_result.v # r_given.v
    /\ r_twice.v.items[2].id = 2

(***************************************************************************)
(* The response of /generate-exam (checked under Spec)                     *)
(***************************************************************************)
\* C18: a request to /generate-exam that is over ended with an error and no
\* response body, or with a success body whose total_generated is the number
\* of items of the worksheet handed to the renderer, whose requested_count is
\* the requested question_count, and whose warning is not null exactly when
\* total_generated < question_count (so null when the two are equal).
C18_CountIsSignalled ==
    /\ pc = "raised" => (error # None /\ ~reply.some)
    /\ reply.some <=> pc = "responded"
    /\ reply.some =>
          /\ error = None /\ docx.some
          /\ reply.v.status = "success"
          /\ reply.v.requested_count = question_count
          /\ reply.v.total_generated = Len(docx.v.items)
          /\ reply.v.warning # None <=> reply.v.total_generated < question_count
          /\ reply.v.total_generated = question_count => reply.v.warning = None

\* a success response for 20 requested questions that reports 2 generated
\* and carries the warning
C18_Witness ==
    /\ pc = "responded" /\ question_count = 20
    /\ reply.v.total_generated = 2 /\ Len(docx.v.items) = 2
    /\ reply.v.warning = PARTIAL_SUCCESS

(***************************************************************************)
(* What the renderer is handed (checked under SpecEndpoints)               *)
(***************************************************************************)
HandedReindexed ==
    docx.some =>
        /\ \A i \in 1..Len(docx.v.items) : docx.v.items[i].id = i
        /\ \/ /\ pc \in {"rendered", "responded"}
              /\ worksheet.some /\ result.some
              /\ docx = worksheet
              /\ Len(docx.v.items) = Len(result.v.items)
           \/ /\ r_pc = "rendered"
              /\ r_result.some
              /\ docx = r_result
              /\ Len(docx.v.items) = Len(r_given.v.items)

HandedAfterReindex ==
    docx' # docx =>
        \/ pc = "counted" /\ worksheet.some /\ docx' = worksheet
        \/ r_pc = "returned" /\ r_result.some /\ docx' = r_result

\* C20: on /generate-exam and on /api/render-docx, generate_docx is called
\* only after reindex_exam_items has returned, with the worksheet it
\* returned, whose item ids are 1, 2, ..., N in order.
C20_RendererGetsReindexed == [](HandedReindexed) /\ [][HandedAfterReindex]_vars

\* /generate-exam has handed the renderer a worksheet of two items whose ids
\* were not 1, 2 when agent_architect returned them
C20_Witness ==
    /\ pc = "rendered" /\ docx.some /\ Len(docx.v.items) = 2
    /\ result.v.items[2].id # 2
    /\ docx.v.items[1].id = 1 /\ docx.v.items[2].id = 2

(***************************************************************************)
(* Shape of the accepted items (checked under Spec)                        *)
(***************************************************************************)
ShapeOk(item) ==
    CASE item.type = "multiple_choice" ->
            /\ item.options.some
            /\ Len(item.options.v) = 4
            /\ \E k \in 1..Len(item.options.v) :
                  item.options.v[k].label = item.correct_answer
      [] item.type = "true_false" -> item.options = TrueFalseOptions
      [] item.type = "subjective" -> ~item.options.some
      [] OTHER -> FALSE

\* C19: every item in the aggregate has the shape of its kind: a
\* multiple_choice item has exactly 4 options and a correct_answer that is
\* the label of one of them, a true_false item has exactly the 2 fixed
\* options, a subjective item has no options.
C19_ShapeInvariant ==
    \A i \in 1..Len(aggregated_items) : ShapeOk(aggregated_items[i])

(***************************************************************************)
(* Properties of normalize_topic (checked under SpecNormalize)             *)
(***************************************************************************)
\* no whitespace at either end, none but single spaces inside, no upper-case
\* letter
IsKey(k) ==
    /\ k # <<>> => (k[1] \notin Whitespace /\ k[Len(k)] \notin Whitespace)
    /\ \A i \in 1..Len(k) : k[i] \in Whitespace => k[i] = " "
    /\ \A i \in 1..(Len(k) - 1) : ~(k[i] = " " /\ k[i + 1] = " ")
    /\ \A i \in 1..Len(k) : \A u \in 1..Len(UpperChars) : k[i] # UpperChars[u]

LoopFinished == pc = "items" /\ pos > Len(parsed.v.items) /\ ~(index < Len(batch_sizes))

MetaCaptured ==
    /\ pc \in {"call", "wait", "items", "returned"} => Len(batch_sizes) >= 1
    /\ pc = "items" => (parsed.some /\ worksheet_meta.some)
    /\ LoopFinished => worksheet_meta.some
    /\ error # NO_BATCHES

\* C28: a run that got past calculate_batches has at least one batch; inside
\* the item loop, and when the batch loop has finished, worksheet_meta is set;
\* so no run ends with the error raised after the loop, and a run whose loop
\* finished returns a worksheet.
C28_MetaCapturedAtLoopEnd ==
    /\ [](MetaCaptured)
    /\ [][LoopFinished /\ pc' # pc => (pc' = "returned" /\ result'.some)]_vars

\* the batch loop of a run of two batches has finished with nothing accepted
C28_Witness ==
    /\ LoopFinished /\ Len(batch_sizes) = 2 /\ index = 2
    /\ aggregated_items = <<>> /\ worksheet_meta.some

(***************************************************************************)
(* No truncation (checked under Spec)                                      *)
(***************************************************************************)
\* the items of the current answer that the item loop has gone past
Visited == IF pc = "items" THEN 1..(pos - 1) ELSE 1..Len(parsed.v.items)

\* C29: the aggregate holds one item for each distinct normalized question
\* among the items of all answers looked at so far, whatever the batch
\* sizes: when an answer has been gone through, and in the worksheet
\* returned, the number of items is the number of distinct normalized
\* questions of all answers; that number may exceed question_count, and
\* /generate-exam then answers success with total_generated above
\* requested_count and a null warning.
C29_NoTruncation ==
    /\ pc \in {"items", "returned", "reindexed", "counted", "rendered", "responded"} =>
          /\ Len(aggregated_items) =
                Cardinality(start_topics \cup
                    {NormalizeTopic(parsed.v.items[i].question) : i \in Visited})
          /\ (pc # "items" \/ pos > Len(parsed.v.items)) =>
                Len(aggregated_items) = Cardinality(returned_keys)
    /\ result.some => Len(result.v.items) = Cardinality(returned_keys)
    /\ (reply.some /\ Cardinality(returned_keys) > question_count) =>
          /\ reply.v.status = "success"
          /\ reply.v.total_generated = Cardinality(returned_keys)
          /\ reply.v.total_generated > reply.v.requested_count
          /\ reply.v.warning = None

\* 20 questions were requested, the two answers held 11 new items each, and
\* the response reports 22 generated without a warning
C29_Witness ==
    /\ pc = "responded" /\ question_count = 20
    /\ batch_sizes = <<10, 10>>
    /\ Cardinality(returned_keys) = 22
    /\ reply.v.total_generated = 22 /\ reply.v.warning = None

(***************************************************************************)
(* Answers that add nothing (checked under Spec)                           *)
(***************************************************************************)
AllParsed == calls # <<>> /\ \A k \in 1..Len(calls) : calls[k].outcome = "parsed"

\* C30: a run all of whose calls answered a parsed worksheet does not fail,
\* however few items the answers added: it returns a worksheet with the
\* metadata of the first answer and the accepted items, none when every
\* answer had an empty list; /generate-exam then answers success with
\* total_generated the number of accepted items and, that number being
\* below the requested count, a warning.
C30_EmptyAnswersSucceed ==
    /\ (Ended /\ AllParsed) =>
          /\ pc # "raised" /\ error = None
          /\ result.some
          /\ MetaOf(result.v) = calls[1].meta
          /\ result.v.items = aggregated_items
          /\ returned_keys = {} => result.v.items = <<>>
    /\ (reply.some /\ Len(aggregated_items) < question_count) =>
          /\ AllParsed
          /\ reply.v.status = "success"
          /\ reply.v.total_generated = Len(aggregated_items)
          /\ reply.v.total_generated < reply.v.requested_count
          /\ reply.v.warning # None

\* both answers of a request for 20 questions had an empty list, and the
\* response is a success reporting 0 generated, with the warning
C30_Witness ==
    /\ pc = "responded" /\ question_count = 20 /\ Len(calls) = 2
    /\ returned_keys = {} /\ result.v.items = <<>>
    /\ MetaOf(result.v) = calls[1].meta
    /\ reply.v.status = "success" /\ reply.v.total_generated = 0
    /\ reply.v.warning = PARTIAL_SUCCESS

(***************************************************************************)
(* Termination (checked under SpecTerminates)                              *)
(***************************************************************************)
InBatchLoop == pc \in {"call", "wait", "items"}

RunOver == pc \in {"returned", "raised"}

LoopsBounded ==
    /\ p_pc \in {"loop", "returned"} => (p_remaining >= 0 /\ p_remaining <= p_total)
    /\ p_pc = "returned" => p_remaining = 0
    /\ InBatchLoop =>
          /\ index >= 1 /\ index <= CeilDiv(question_count, MAX_BATCH)
          /\ Len(calls) <= index
    /\ Len(calls) <= CeilDiv(question_count, MAX_BATCH) \/ question_count <= 0
    /\ pc = "returned" => (result.some /\ error = None)
    /\ pc = "raised" => (error # None /\ ~result.some)

\* C25: the remaining count of the planner loop strictly decreases at every
\* iteration, never below 0, and the planner returns with it at 0 or raises;
\* the batch loop of a run never goes past iteration
\* ceil(question_count / 10) and never advances backwards; and a run with
\* question_count > 0 whose collaborator calls all come back eventually ends,
\* by returning a Worksheet or by raising.
C25_Terminates ==
    /\ [](LoopsBounded)
    /\ [][PlanStep => (p_remaining' < p_remaining /\ p_remaining' >= 0)]_vars
    /\ [][InBatchLoop /\ InBatchLoop' => index' >= index]_vars
    /\ [][(pc = "items" /\ pc' = "call") => index' = index + 1]_vars
    /\ (p_pc = "entry") ~> (p_pc \in {"returned", "raised"})
    /\ (pc = "start" /\ question_count > 0) ~> RunOver

\* a run for 25 questions ended after its third call, and a plan for 25 with
\* batches of at most 10 reaches its end
C25_Witness ==
    /\ pc = "returned" /\ question_count = 25 /\ Len(calls) = 3 /\ index = 3
    /\ result.some

(***************************************************************************)
(* Abandoned requests (checked under SpecAbandon)                          *)
(***************************************************************************)
\* C24: once the caller has abandoned the request, no generation call is
\* issued for a batch that had not started at that moment: the calls issued
\* never exceed the batches started when the caller went away.
C24_NoCallAfterAbandon == abandoned => Len(calls) <= started_at_abandon

(***************************************************************************)
(* The handlers (checked under SpecHandler)                                *)
(***************************************************************************)
Invalid(request) == ValidationError(request) # NoException

\* C21: a request to /generate-exam whose question_count, language or
\* exam_type is not allowed is answered with status 422, and before that no
\* AI step (get_client, upload_to_gemini, agent_analyst, agent_architect) is
\* entered for it.
C21_InvalidRejected ==
    (h_endpoint = GENERATE_EXAM /\ Invalid(h_request)) =>
        /\ h_ai_calls = <<>>
        /\ pc = "idle"
        /\ h_http.some => h_http.v.status = 422

Failed == h_endpoint = GENERATE_EXAM /\ h_exception # NoException

DocxCalled == pc \in {"rendered", "responded", "failed"}

ErrorMapped ==
    (Failed /\ h_pc = "done") =>
        /\ h_http.some /\ h_http.v.status # 200
        /\ h_exception.class = "HTTPException" =>
              h_http.v = Http(h_exception.status, h_exception.detail)
        /\ h_exception.class = "ValueError" =>
              h_http.v = Http(500, <<"Configuration error">> \o h_exception.detail)
        /\ h_exception.class = "Exception" =>
              h_http.v = Http(500, <<"Internal error">> \o h_exception.detail)

\* C26 as amended: in /generate-exam a failed step never yields a success
\* response or a rendered document; an HTTPException keeps its status and
\* detail, a ValueError becomes 500 "Configuration error", any other
\* exception becomes 500 "Internal error"; and generate_docx is not called,
\* except when generate_docx is itself the step that failed.
C26_FailureMapped ==
    /\ Failed => (reply = NoReply /\ docx = NoWorksheet)
    /\ (h_http.some /\ h_http.v.status = 200) => h_exception = NoException
    /\ ErrorMapped
    /\ (Failed /\ DocxCalled) =>
          (pc = "failed" /\ h_exception = OtherException(<<"generate_docx failed">>))

\* a run of agent_architect ended on an empty response and the client got
\* 500 with the Configuration error detail
C26_Witness ==
    /\ h_endpoint = GENERATE_EXAM /\ h_pc = "done"
    /\ pc = "raised" /\ error = EMPTY_RESPONSE
    /\ h_exception = ValueError(<<EMPTY_RESPONSE>>)
    /\ h_http.v = Http(500, <<"Configuration error", EMPTY_RESPONSE>>)
    /\ docx = NoWorksheet /\ reply = NoReply

\* C26 as stated: in all three cases generate_docx is not called
C26_Original ==
    /\ Failed => (reply = NoReply /\ docx = NoWorksheet)
    /\ ErrorMapped
    /\ Failed => ~DocxCalled

RECURSIVE AloneItems(_, _, _, _)
AloneItems(items, topics, list, i) ==
    IF i > Len(list) THEN [items |-> items, topics |-> topics]
    ELSE IF IsDuplicate(NormalizeTopic(list[i].question), topics)
    THEN AloneItems(items, topics, list, i + 1)
    ELSE AloneItems(AppendItem(items, list[i]),
                    AddTopic(topics, NormalizeTopic(list[i].question)), list, i + 1)

\* the batch loop from batch k
RECURSIVE AloneBatches(_, _, _, _, _, _)
AloneBatches(sizes, answers, k, items, topics, meta) ==
    IF k > Len(sizes)
    THEN IF ~meta.some
         THEN [error |-> NO_BATCHES, result |-> NoWorksheet]
         ELSE [error |-> None,
               result |-> Some(Worksheet(meta.v.title, meta.v.subject,
                                         meta.v.target_level, items))]
    ELSE IF answers[k].kind = "raise"
    THEN [error |-> UPSTREAM_ERROR, result |-> NoWorksheet]
    ELSE IF answers[k].kind = "none"
    THEN [error |-> EMPTY_RESPONSE, result |-> NoWorksheet]
    ELSE LET after == AloneItems(items, topics, answers[k].parsed.v.items, 1)
         IN  AloneBatches(sizes, answers, k + 1, after.items, after.topics,
                          CaptureMeta(meta, answers[k].parsed))

Alone(count, answers) ==
    AloneBatches(CalculateBatches(count, MAX_BATCH).value, answers, 1, <<>>, {}, NoWorksheet)

RunEnded(r) == runs[r].pc \in {"returned", "raised"}

\* C22: of two runs of agent_architect interleaved in any way, every step
\* changes the locals of one run only, and a run that has ended has the
\* result (the Worksheet, or the exception) it would have alone on the
\* answers its own calls received, whatever the other run did meanwhile.
C22_RunsIndependent ==
    /\ [][\E r \in Runs : \A q \in Runs \ {r} : runs'[q] = runs[q]]_vars
    /\ [](\A r \in DOMAIN runs :
             RunEnded(r) =>
                 /\ runs[r].result = Alone(runs[r].question_count, runs[r].answers).result
                 /\ runs[r].error = Alone(runs[r].question_count, runs[r].answers).error)

\* both runs returned, each having accepted an item with the same normalized
\* question as the other
C22_Witness ==
    /\ runs # <<>>
    /\ \A r \in DOMAIN runs :
          /\ runs[r].pc = "returned"
          /\ Len(runs[r].result.v.items) = 1
          /\ NormalizeTopic(runs[r].result.v.items[1].question) = <<"f", "o", "o", " ", "b", "a", "r">>
    /\ runs[1].question_count = 12 /\ runs[2].question_count = 7
====
